---- MODULE Spec2Model ----
(***************************************************************************)
(* Scan registration of the LOAM pipeline (MultiScanRegistration and       *)
(* ScanRegistration): ring mapping, sweep segmentation, feature extraction *)
(* and IMU state interpolation, as state machines over integer data.       *)
(*                                                                         *)
(* Numbers.  The program computes in float/double.  The model computes in  *)
(* exact integer or rational arithmetic:                                   *)
(*   - vertical angles are integers in millidegrees (Deg);                 *)
(*   - azimuths are integers in units of pi/4 (pi is 4, 2 pi is 8);        *)
(*   - coordinates are integers in decimetres, squared distances in        *)
(*     square decimetres (0.01 m^2);                                       *)
(*   - times are integers in milliseconds;                                 *)
(*   - a rational is a record [num, den] with den > 0.                     *)
(* Float rounding is not modelled: a comparison that the program decides   *)
(* within one float ulp of its threshold may differ from the model.        *)
(***************************************************************************)
EXTENDS Integers, Sequences, FiniteSets, TLC

VARIABLES
  \* ---- MultiScanMapper::getRingForAngle applied to one angle
  pcRing,          \* "in" | "mapped" | "done"
  angleIn,         \* the vertical angle handed to getRingForAngle
  scanIDOut,       \* the ring id it returned
  keptOut,         \* whether process() keeps the point (line 197)
  \* ---- MultiScanRegistration::process
  pc,              \* position in process() / extractFeatures()
  laserCloudIn,    \* the input sweep (pcl::PointXYZ, lidar frame)
  scanMapper,      \* _scanMapper
  params,          \* _params
  cloudSize,       \* local cloudSize
  startOri,        \* local startOri
  endOri,          \* local endOri
  halfPassed,      \* local halfPassed
  ptIdx,           \* loop variable i of the point loop (0-based)
  laserCloudScans, \* local laserCloudScans, one sequence per ring
  laserCloud,      \* _laserCloud
  scanIndices,     \* _scanIndices, a sequence of <<first, second>>
  oobRead,         \* an element of laserCloudIn outside [0, size) was read
  scanTime,        \* _scanTime
  sweepStart,      \* _sweepStart
  \* ---- ScanRegistration::extractFeatures and publishResult
  cornerPointsSharp,       \* _cornerPointsSharp
  cornerPointsLessSharp,   \* _cornerPointsLessSharp
  surfacePointsFlat,       \* _surfacePointsFlat
  surfacePointsLessFlat,   \* _surfacePointsLessFlat
  surfPointsLessFlatScan,  \* local surfPointsLessFlatScan of the current scan
  scanI,                   \* loop variable i over _scanIndices
  regionJ,                 \* loop variable j over the feature regions
  regSp,                   \* local sp
  regEp,                   \* local ep
  loopK,                   \* loop variable k of the corner / flat loop
  largestPickedNum,        \* local largestPickedNum
  smallestPickedNum,       \* local smallestPickedNum
  regionCurvature,         \* _regionCurvature, indexed from 0
  regionLabel,             \* _regionLabel, indexed from 0
  regionSortIndices,       \* _regionSortIndices, indexed from 0
  scanNeighborPicked,      \* _scanNeighborPicked, indexed from 0
  published,               \* the messages publishResult() has sent
  pickLog,                 \* history: the picks of the current scan, in order
  \* ---- ScanRegistration: the IMU history and its interpolation
  pcImu,           \* position of the caller of reset / interpolateIMUStateFor
  imuHistory,      \* _imuHistory, oldest sample first
  imuIdx,          \* _imuIdx, counted from 0
  imuStart,        \* _imuStart
  imuCur,          \* _imuCur
  relTimeIn,       \* argument relTime of the last interpolateIMUStateFor call
  imuCalls,        \* number of interpolateIMUStateFor calls since reset
  newSweepIn,      \* argument newSweep of the last reset call
  scanTimeIn,      \* argument scanTime of the last reset call
  \* ---- TransformMaintenance: the fused pose, its writers and a reader
  transformMapped,     \* _transformMapped: per component, the update that wrote it
  transformBefMapped,  \* _transformBefMapped, likewise
  transformAftMapped,  \* _transformAftMapped, likewise
  mainThreadMutex,     \* main_thread_mutex_: "free" or the operation holding it
  writeIdx,            \* number of components the holder has written
  poseUpdates,         \* number of updates started so far
  pcReader,            \* "idle" | "reading" | "done"
  poseRead,            \* the components the reader has copied so far
  \* ---- ScanRegistration::setup and MultiScanRegistration::setup
  pcSetup,         \* "idle" | "base" | "mapper" | "done"
  nodeParams,      \* the parameter server: name -> value, Absent if not set
  paramsBefore,    \* history: _params when setup() was called
  mapperBefore,    \* history: _scanMapper when setup() was called
  subscribed,      \* the topics subscribed to
  setupReturn,     \* "none" | "true" | "false"
  errorsReported,  \* the parameters ROS_ERROR was called for
  \* ---- setRegionBuffersFor: the sorting loops
  sortI,           \* loop variable i of the outer sorting loop
  sortJ,           \* loop variable j of the inner sorting loop
  \* ---- MultiScanRegistration::handleCloudMessage
  systemDelay,     \* _systemDelay
  msgsReceived     \* history: number of cloud messages handled so far

ringVars == <<pcRing, angleIn, scanIDOut, keptOut>>
procRest == <<laserCloudIn, scanMapper, params, cloudSize, startOri, endOri,
              halfPassed, ptIdx, laserCloudScans, laserCloud, scanIndices,
              oobRead, scanTime, sweepStart>>
procVars == <<pc, procRest>>
featVars == <<cornerPointsSharp, cornerPointsLessSharp, surfacePointsFlat,
              surfacePointsLessFlat, surfPointsLessFlatScan, scanI, regionJ,
              regSp, regEp, loopK, largestPickedNum, smallestPickedNum,
              regionCurvature, regionLabel, regionSortIndices,
              scanNeighborPicked, published, pickLog>>
imuRest == <<pcImu, imuHistory, imuCur, relTimeIn, imuCalls>>
imuVars == <<imuIdx, imuStart, newSweepIn, scanTimeIn, imuRest>>
poseVars == <<transformMapped, transformBefMapped, transformAftMapped,
              mainThreadMutex, writeIdx, poseUpdates, pcReader, poseRead>>
setupVars == <<pcSetup, nodeParams, paramsBefore, mapperBefore, subscribed,
               setupReturn, errorsReported>>
sortVars == <<sortI, sortJ>>
msgVars == <<systemDelay, msgsReceived>>
otherVars == <<poseVars, setupVars, sortVars, msgVars>>
vars == <<ringVars, procVars, featVars, imuVars, otherVars>>

(***************************************************************************)
(* Arithmetic helpers                                                      *)
(***************************************************************************)
\* C++ conversion of a real num/den (den > 0) to int: truncation toward zero.
TruncFloor(num, den) == num \div den
TruncDiv(num, den) == IF num >= 0 THEN num \div den ELSE -((-num) \div den)

\* d degrees as a vertical angle of the model (millidegrees)
Deg(d) == 1000 * d

(***************************************************************************)
(* MultiScanMapper                                                         *)
(***************************************************************************)
\* The linear mapper of the 16-ring sensor: bounds in degrees and ring count.
VLP16 == [lowerBound |-> -15, upperBound |-> 15, nScanRings |-> 16]

\* int(((angle * 180 / M_PI) - _lowerBound) * _factor + 0.5), with
\* _factor = (nScanRings - 1) / (upperBound - lowerBound); angle is given in
\* millidegrees, so the value converted to int is the rational
\*   (2 (n-1) (angle - Deg(lower)) + Deg(upper - lower)) / (2 Deg(upper - lower)).
RingValueNum(m, angle) ==
  2 * (m.nScanRings - 1) * (angle - Deg(m.lowerBound))
    + Deg(m.upperBound - m.lowerBound)
RingValueDen(m) == 2 * Deg(m.upperBound - m.lowerBound)

getRingForAngleFloor(m, angle) == TruncFloor(RingValueNum(m, angle), RingValueDen(m))
getRingForAngle(m, angle) == TruncDiv(RingValueNum(m, angle), RingValueDen(m))

\* process(): "if (scanID >= getNumberOfScanRings() || scanID < 0) continue;"
RingInRange(m, scanID) == ~(scanID >= m.nScanRings \/ scanID < 0)


(***************************************************************************)
(* Points                                                                  *)
(* An input point is [x, y, z, nan]: integer coordinates and the set of    *)
(* coordinate names that hold a non-finite value.  A registered point is   *)
(* [x, y, z, intensity] with intensity a rational [num, den].              *)
(***************************************************************************)
\* point.x = in.y; point.y = in.z; point.z = in.x  (lines 178-180)
RemapNan(c) == IF c = "y" THEN "x" ELSE IF c = "z" THEN "y" ELSE "z"
Remap(in) == [x |-> in.y, y |-> in.z, z |-> in.x, nan |-> {RemapNan(c) : c \in in.nan}]

\* pcl_isfinite(point.x) && pcl_isfinite(point.y) && pcl_isfinite(point.z)
IsFinitePoint(p) == "x" \notin p.nan /\ "y" \notin p.nan /\ "z" \notin p.nan

\* point.x^2 + point.y^2 + point.z^2 < 0.0001 (m^2), coordinates in decimetres:
\* 0.0001 m^2 is 0.01 dm^2, so 100 * squared norm < 1.
SquaredNorm(p) == p.x * p.x + p.y * p.y + p.z * p.z
IsZeroPoint(p) == 100 * SquaredNorm(p) < 1

\* std::atan(point.y / std::sqrt(point.x^2 + point.z^2)) in millidegrees, for
\* the directions of the model's grid: y = 0, the vertical axis, and the
\* directions with y^2 = h^2 or 2 y^2 = h^2 (h^2 = x^2 + z^2).
Sign(v) == IF v > 0 THEN 1 ELSE IF v < 0 THEN -1 ELSE 0
VertAngle(p) ==
  LET h2 == p.x * p.x + p.z * p.z
      y2 == p.y * p.y
  IN  IF p.y = 0 THEN 0
      ELSE IF h2 = 0 THEN Sign(p.y) * Deg(90)
      ELSE IF y2 = h2 THEN Sign(p.y) * Deg(45)
      ELSE Sign(p.y) * 35264      \* 2 y^2 = h^2: atan(1/sqrt 2) = 35.264 deg

\* std::atan2(a, b) in units of pi/4, for a = 0, b = 0 or |a| = |b|.
Atan2Q(a, b) ==
  IF a = 0 THEN (IF b < 0 THEN 4 ELSE 0)
  ELSE IF b = 0 THEN 2 * Sign(a)
  ELSE IF b > 0 THEN Sign(a)
  ELSE 3 * Sign(a)

\* -std::atan2(laserCloudIn[k].y, laserCloudIn[k].x) on an input point
InputOri(in) == -Atan2Q(in.y, in.x)
\* -std::atan2(point.x, point.z) on a remapped point
PointOri(p) == -Atan2Q(p.x, p.z)

\* endOri after lines 164-170, from the raw end azimuth and startOri
AdjustEndOri(rawEnd, start) ==
  LET e == rawEnd + 8
  IN  IF e - start > 12 THEN e - 8
      ELSE IF e - start < 4 THEN e + 8
      ELSE e

\* lines 202-221: the unwrapped azimuth of a point and the new halfPassed
UnwrapOri(ori, start, end, half) ==
  IF ~half
  THEN LET o == IF ori < start - 2 THEN ori + 8
                ELSE IF ori > start + 6 THEN ori - 8
                ELSE ori
       IN  [ori |-> o, halfPassed |-> (o - start > 4)]
  ELSE LET o1 == ori + 8
           o == IF o1 < end - 6 THEN o1 + 8
                ELSE IF o1 > end + 2 THEN o1 - 8
                ELSE o1
       IN  [ori |-> o, halfPassed |-> TRUE]

\* relTime = scanPeriod * (ori - startOri) / (endOri - startOri), in seconds,
\* as a rational; scanPeriod is in milliseconds.
RelTime(scanPeriod, ori, start, end) ==
  [num |-> scanPeriod * (ori - start), den |-> 1000 * (end - start)]

\* point.intensity = scanID + relTime
Intensity(scanID, relTime) ==
  [num |-> scanID * relTime.den + relTime.num, den |-> relTime.den]

\* bool hasIMUData() { return _imuHistory.size() > 0; }
hasIMUData == Len(imuHistory) > 0

(***************************************************************************)
(* The IMU history: a sample is [stamp, yaw], the stamp in milliseconds    *)
(* and the yaw a reading that tells the samples apart.  An IMU state       *)
(* written by interpolateIMUStateFor is either a copy of a sample or the   *)
(* result of IMUState::interpolate(start, end, ratio), kept as the call's  *)
(* arguments with the ratio a rational [num, den].                         *)
(***************************************************************************)
\* _imuHistory[idx], idx counted from 0
ImuAt(history, idx) == history[idx + 1]

\* timeDiff = (_scanTime - _imuHistory[_imuIdx].stamp) + relTime
ImuTimeDiff(history, idx, scanT, relTime) ==
  (scanT - ImuAt(history, idx).stamp) + relTime

\* the while loop of lines 527-530: the cursor after the forward scan
RECURSIVE AdvanceImuIdx(_, _, _, _)
AdvanceImuIdx(history, idx, scanT, relTime) ==
  IF idx < Len(history) - 1 /\ ImuTimeDiff(history, idx, scanT, relTime) > 0
  THEN AdvanceImuIdx(history, idx + 1, scanT, relTime)
  ELSE idx

\* the cursor and the output state of one call
interpolateIMUStateFor(history, idx, scanT, relTime) ==
  LET i == AdvanceImuIdx(history, idx, scanT, relTime)
      timeDiff == ImuTimeDiff(history, i, scanT, relTime)
  IN  [imuIdx |-> i,
       outputState |->
         IF i = 0 \/ timeDiff > 0
         THEN [kind |-> "sample", sample |-> ImuAt(history, i)]
         ELSE [kind |-> "interpolate",
               start |-> ImuAt(history, i),
               end |-> ImuAt(history, i - 1),
               ratio |-> [num |-> -timeDiff,
                          den |-> ImuAt(history, i).stamp
                                    - ImuAt(history, i - 1).stamp]]]

\* an IMU state nothing has been written to
NoImuState == [kind |-> "none"]

(***************************************************************************)
(* ScanRegistration::handleIMUMessage.  Angles are whole quarter turns,    *)
(* accelerations are in cm/s^2 (gravity 9.81 m/s^2 is 981), stamps in ms,  *)
(* velocities in cm/s^2 * ms (1e-5 m/s) and positions in halves of         *)
(* cm/s^2 * ms^2 (5e-9 m), so that 0.5 * a * dt * dt is a * dt * dt.       *)
(***************************************************************************)
Vec(x, y, z) == [x |-> x, y |-> y, z |-> z]
VecAdd(a, b) == Vec(a.x + b.x, a.y + b.y, a.z + b.z)
VecScale(a, k) == Vec(a.x * k, a.y * k, a.z * k)

\* sin and cos of q quarter turns
SinQ(q) == IF q % 4 = 1 THEN 1 ELSE IF q % 4 = 3 THEN -1 ELSE 0
CosQ(q) == IF q % 4 = 0 THEN 1 ELSE IF q % 4 = 2 THEN -1 ELSE 0

\* lines 438-441: the acceleration without gravity, in the camera axes
GravityCompensated(lin, roll, pitch) ==
  Vec(lin.y - SinQ(roll) * CosQ(pitch) * 981,
      lin.z - CosQ(roll) * CosQ(pitch) * 981,
      lin.x + SinQ(pitch) * 981)

\* rotateZXY(v, angZ, angX, angY): rotate about z, then x, then y
rotZ(v, ang) == Vec(CosQ(ang) * v.x - SinQ(ang) * v.y, SinQ(ang) * v.x + CosQ(ang) * v.y, v.z)
rotX(v, ang) == Vec(v.x, CosQ(ang) * v.y - SinQ(ang) * v.z, SinQ(ang) * v.y + CosQ(ang) * v.z)
rotY(v, ang) == Vec(CosQ(ang) * v.x + SinQ(ang) * v.z, v.y, CosQ(ang) * v.z - SinQ(ang) * v.x)
rotateZXY(v, angZ, angX, angY) == rotY(rotX(rotZ(v, angZ), angX), angY)

\* IMUState newState: position and velocity start at zero
ZeroVec == Vec(0, 0, 0)

\* lines 456-458: position, in halves of cm/s^2 * ms^2
IntegratePositionNoHalf(prev, acc, timeDiff) ==
  VecAdd(VecAdd(prev.position, VecScale(prev.velocity, 2 * timeDiff)),
         VecScale(acc, 2 * timeDiff * timeDiff))
IntegratePosition(prev, acc, timeDiff) ==
  VecAdd(VecAdd(prev.position, VecScale(prev.velocity, 2 * timeDiff)),
         VecScale(acc, timeDiff * timeDiff))

\* lines 459-460: velocity
IntegrateVelocity(prev, acc, timeDiff) ==
  VecAdd(prev.velocity, VecScale(acc, timeDiff))

\* CircularBuffer::push: append, dropping the oldest sample of a full buffer
CircularPush(history, smp, capacity) ==
  IF Len(history) < capacity THEN Append(history, smp)
  ELSE Append(Tail(history), smp)

\* the sample handleIMUMessage pushes for a message [stamp, roll, pitch, yaw, lin]
NewImuState(history, msg) ==
  LET acc == GravityCompensated(msg.lin, msg.roll, msg.pitch)
      base == [stamp |-> msg.stamp, roll |-> msg.roll, pitch |-> msg.pitch,
               yaw |-> msg.yaw, acceleration |-> acc,
               velocity |-> ZeroVec, position |-> ZeroVec]
  IN  IF Len(history) > 0
      THEN LET rotated == rotateZXY(acc, msg.roll, msg.pitch, msg.yaw)
               prevState == history[Len(history)]
               timeDiff == msg.stamp - prevState.stamp
           IN  [base EXCEPT
                  !.position = IntegratePosition(prevState, rotated, timeDiff),
                  !.velocity = IntegrateVelocity(prevState, rotated, timeDiff)]
      ELSE base

\* ScanRegistration::reset(scanTime, newSweep)
ResetCloudAlways(cloud, newSweep) == <<>>
ResetCloud(cloud, newSweep) == IF newSweep THEN <<>> ELSE cloud

Reset(t, newSweep) ==
  /\ newSweepIn' = newSweep
  /\ scanTimeIn' = t
  /\ scanTime' = t
  /\ IF hasIMUData
     THEN LET r == interpolateIMUStateFor(imuHistory, 0, t, 0)
          IN  imuIdx' = r.imuIdx /\ imuStart' = r.outputState
     ELSE imuIdx' = 0 /\ imuStart' = imuStart
  /\ sweepStart' = IF newSweep THEN t ELSE sweepStart
  /\ laserCloud' = ResetCloud(laserCloud, newSweep)
  /\ cornerPointsSharp' = ResetCloud(cornerPointsSharp, newSweep)
  /\ cornerPointsLessSharp' = ResetCloud(cornerPointsLessSharp, newSweep)
  /\ surfacePointsFlat' = ResetCloud(surfacePointsFlat, newSweep)
  /\ surfacePointsLessFlat' = ResetCloud(surfacePointsLessFlat, newSweep)
  /\ scanIndices' = ResetCloud(scanIndices, newSweep)

\* what reset leaves alone
resetKept == <<laserCloudIn, scanMapper, params, startOri, endOri, halfPassed,
               ptIdx, laserCloudScans, oobRead, surfPointsLessFlatScan, scanI,
               regionJ, regSp, regEp, loopK, largestPickedNum, smallestPickedNum,
               regionCurvature, regionLabel, regionSortIndices,
               scanNeighborPicked, published, pickLog, ringVars, otherVars>>

(***************************************************************************)
(* ScanRegistration: feature extraction helpers                            *)
(***************************************************************************)
\* PointLabel
CORNER_SHARP == 2
CORNER_LESS_SHARP == 1
SURFACE_LESS_FLAT == 0
SURFACE_FLAT == -1

\* _laserCloud[i], i counted from 0
At(cloud, i) == cloud[i + 1]

\* calcSquaredDiff(a, b): squared Euclidean distance, in dm^2
calcSquaredDiff(a, b) ==
  (a.x - b.x) * (a.x - b.x) + (a.y - b.y) * (a.y - b.y) + (a.z - b.z) * (a.z - b.z)

\* calcSquaredPointDistance(p): squared range, in dm^2
calcSquaredPointDistance(p) == p.x * p.x + p.y * p.y + p.z * p.z

\* weighted_distance < 0.1 of lines 698-700 and 706-708.  With d1 = |p| and
\* d2 = |n| both lines compute |n d1 - p d2| / (d1 d2), whose square is
\* 2 (1 - cos t) for the angle t between p and n; it is below 0.01 exactly when
\* p.n > 0 and |p x n|^2 < 0.009975 |p|^2 |n|^2 (40000 C < 399 A B), for points
\* off the origin.
WeightedDistanceSmall(p, n) ==
  LET dot == p.x * n.x + p.y * n.y + p.z * n.z
      ab == calcSquaredPointDistance(p) * calcSquaredPointDistance(n)
      c == ab - dot * dot
  IN  dot > 0 /\ c <= (399 * ab - 1) \div 40000

\* std::fill_n(&a[from], count, 1)
FillOnes(a, from, count) ==
  [q \in DOMAIN a |-> IF q >= from /\ q < from + count THEN 1 ELSE a[q]]

\* line 717: diffNext > 0.0002 * dis && diffPrevious > 0.0002 * dis
GapsLargeEither(diffNext, diffPrevious, dis) ==
  5000 * diffNext > dis \/ 5000 * diffPrevious > dis
GapsLarge(diffNext, diffPrevious, dis) ==
  5000 * diffNext > dis /\ 5000 * diffPrevious > dis

\* one iteration i of the loop of setScanBuffersFor (lines 686-720)
ScanBufferStep(cloud, picked, startIdx, cr, i) ==
  LET previousPoint == At(cloud, i - 1)
      point == At(cloud, i)
      nextPoint == At(cloud, i + 1)
      diffNext == calcSquaredDiff(nextPoint, point)
      diffPrevious == calcSquaredDiff(point, previousPoint)
      dis == calcSquaredPointDistance(point)
      farther == calcSquaredPointDistance(point) > calcSquaredPointDistance(nextPoint)
      occluded == diffNext > 10 /\ WeightedDistanceSmall(point, nextPoint)
      afterOcclusion ==
        IF occluded /\ ~farther
        THEN FillOnes(picked, i - startIdx + 1, cr + 1)
        ELSE picked
  IN  IF occluded /\ farther
      THEN FillOnes(picked, i - startIdx - cr, cr + 1)     \* and continue
      ELSE IF GapsLarge(diffNext, diffPrevious, dis)
           THEN [afterOcclusion EXCEPT ![i - startIdx] = 1]
           ELSE afterOcclusion

RECURSIVE ScanBufferLoop(_, _, _, _, _, _)
ScanBufferLoop(cloud, picked, startIdx, endIdx, cr, i) ==
  IF i < endIdx - cr
  THEN ScanBufferLoop(cloud, ScanBufferStep(cloud, picked, startIdx, cr, i),
                      startIdx, endIdx, cr, i + 1)
  ELSE picked

\* setScanBuffersFor(startIdx, endIdx): the new _scanNeighborPicked
setScanBuffersFor(cloud, startIdx, endIdx, cr) ==
  ScanBufferLoop(cloud, [q \in 0 .. endIdx - startIdx |-> 0],
                 startIdx, endIdx, cr, startIdx + cr)

\* lines 649-662: the curvature of point i
RECURSIVE NeighborSum(_, _, _, _)
NeighborSum(cloud, i, j, axis) ==
  IF j = 0 THEN 0
  ELSE At(cloud, i + j)[axis] + At(cloud, i - j)[axis] + NeighborSum(cloud, i, j - 1, axis)

Curvature(cloud, i, cr) ==
  LET pointWeight == -2 * cr
      diffX == pointWeight * At(cloud, i).x + NeighborSum(cloud, i, cr, "x")
      diffY == pointWeight * At(cloud, i).y + NeighborSum(cloud, i, cr, "y")
      diffZ == pointWeight * At(cloud, i).z + NeighborSum(cloud, i, cr, "z")
  IN  diffX * diffX + diffY * diffY + diffZ * diffZ

\* lines 667-673: the sorting loops, on sort indices s (from 0) and curvature c
SwapAt(s, j) == [s EXCEPT ![j] = s[j - 1], ![j - 1] = s[j]]

SortLessOrEqual(c, startIdx, a, b) == c[a - startIdx] <= c[b - startIdx]
SortLess(c, startIdx, a, b) == c[a - startIdx] < c[b - startIdx]

RECURSIVE SortInner(_, _, _, _)
SortInner(s, c, startIdx, j) ==
  IF j >= 1
  THEN SortInner(IF SortLess(c, startIdx, s[j], s[j - 1]) THEN SwapAt(s, j) ELSE s,
                 c, startIdx, j - 1)
  ELSE s

RECURSIVE SortOuter(_, _, _, _, _)
SortOuter(s, c, startIdx, i, regionSize) ==
  IF i < regionSize
  THEN SortOuter(SortInner(s, c, startIdx, i), c, startIdx, i + 1, regionSize)
  ELSE s

\* setRegionBuffersFor(startIdx, endIdx): the three region buffers
setRegionBuffersFor(cloud, startIdx, endIdx, cr) ==
  LET regionSize == endIdx - startIdx + 1
      c == [q \in 0 .. regionSize - 1 |-> Curvature(cloud, startIdx + q, cr)]
      s == [q \in 0 .. regionSize - 1 |-> startIdx + q]
  IN  [curvature |-> c,
       sortIndices |-> SortOuter(s, c, startIdx, 1, regionSize),
       label |-> [q \in 0 .. regionSize - 1 |-> SURFACE_LESS_FLAT]]

\* markAsPicked(cloudIdx, scanIdx): the new _scanNeighborPicked
RECURSIVE MarkForward(_, _, _, _, _, _)
MarkForward(cloud, picked, cloudIdx, scanIdx, cr, i) ==
  IF i <= cr /\ ~(calcSquaredDiff(At(cloud, cloudIdx + i), At(cloud, cloudIdx + i - 1)) > 5)
  THEN MarkForward(cloud, [picked EXCEPT ![scanIdx + i] = 1], cloudIdx, scanIdx, cr, i + 1)
  ELSE picked

RECURSIVE MarkBackward(_, _, _, _, _, _)
MarkBackward(cloud, picked, cloudIdx, scanIdx, cr, i) ==
  IF i <= cr /\ ~(calcSquaredDiff(At(cloud, cloudIdx - i), At(cloud, cloudIdx - i + 1)) > 5)
  THEN MarkBackward(cloud, [picked EXCEPT ![scanIdx - i] = 1], cloudIdx, scanIdx, cr, i + 1)
  ELSE picked

markSelfOnly(cloud, picked, cloudIdx, scanIdx, cr) ==
  [picked EXCEPT ![scanIdx] = 1]
markAsPicked(cloud, picked, cloudIdx, scanIdx, cr) ==
  MarkBackward(cloud,
               MarkForward(cloud, [picked EXCEPT ![scanIdx] = 1], cloudIdx, scanIdx, cr, 1),
               cloudIdx, scanIdx, cr, 1)

\* lines 561-564: the bounds of region j of a scan
RegionSpNoMargin(scanStartIdx, scanEndIdx, cr, n, j) ==
  (scanStartIdx * (n - j) + (scanEndIdx - cr) * j) \div n
RegionSp(scanStartIdx, scanEndIdx, cr, n, j) ==
  ((scanStartIdx + cr) * (n - j) + (scanEndIdx - cr) * j) \div n
RegionEpInclusive(scanStartIdx, scanEndIdx, cr, n, j) ==
  ((scanStartIdx + cr) * (n - 1 - j) + (scanEndIdx - cr) * (j + 1)) \div n
RegionEp(scanStartIdx, scanEndIdx, cr, n, j) ==
  ((scanStartIdx + cr) * (n - 1 - j) + (scanEndIdx - cr) * (j + 1)) \div n - 1

\* pcl::VoxelGrid with leaf size leaf: one output point per occupied voxel, in
\* the order of the voxel indices; an output point is the voxel with the number
\* and the coordinate sums of its points (the centroid is sum / count).
FloorDiv(a, b) == IF a >= 0 THEN a \div b ELSE -((-a + b - 1) \div b)
VoxelOf(p, leaf) == <<FloorDiv(p.z, leaf), FloorDiv(p.y, leaf), FloorDiv(p.x, leaf)>>
VoxelBefore(u, v) ==
  \/ u[1] < v[1]
  \/ u[1] = v[1] /\ u[2] < v[2]
  \/ u[1] = v[1] /\ u[2] = v[2] /\ u[3] < v[3]

RECURSIVE SumOver(_, _, _, _)
SumOver(cloud, v, leaf, axis) ==
  IF cloud = <<>> THEN 0
  ELSE (IF VoxelOf(Head(cloud), leaf) = v THEN Head(cloud)[axis] ELSE 0)
       + SumOver(Tail(cloud), v, leaf, axis)

RECURSIVE SortVoxels(_)
SortVoxels(vs) ==
  IF vs = {} THEN <<>>
  ELSE LET m == CHOOSE v \in vs : \A w \in vs \ {v} : VoxelBefore(v, w)
       IN  <<m>> \o SortVoxels(vs \ {m})

DownSize(cloud, leaf) ==
  LET vs == {VoxelOf(cloud[q], leaf) : q \in DOMAIN cloud}
      order == SortVoxels(vs)
  IN  [q \in DOMAIN order |->
         [voxel |-> order[q],
          count |-> Cardinality({r \in DOMAIN cloud : VoxelOf(cloud[r], leaf) = order[q]}),
          x |-> SumOver(cloud, order[q], leaf, "x"),
          y |-> SumOver(cloud, order[q], leaf, "y"),
          z |-> SumOver(cloud, order[q], leaf, "z")]]

(***************************************************************************)
(* MultiScanRegistration::process, one action per step                     *)
(***************************************************************************)
\* process() entry: cloudSize = laserCloudIn.size(); reset(scanTime).
ProcessReset ==
  /\ pc = "reset"
  /\ cloudSize' = Len(laserCloudIn)
  /\ Reset(scanTime, TRUE)
  /\ pc' = "orient"
  /\ UNCHANGED <<resetKept, imuRest>>

\* lines 163-174 on a non-empty sweep
ProcessOrient ==
  /\ pc = "orient"
  /\ cloudSize > 0
  /\ startOri' = InputOri(laserCloudIn[1])
  /\ endOri' = AdjustEndOri(InputOri(laserCloudIn[cloudSize]), InputOri(laserCloudIn[1]))
  /\ halfPassed' = FALSE
  /\ laserCloudScans' = [r \in 1 .. scanMapper.nScanRings |-> <<>>]
  /\ ptIdx' = 0
  /\ pc' = "loop"
  /\ UNCHANGED <<laserCloudIn, scanMapper, params, cloudSize, laserCloud,
                 scanIndices, oobRead, scanTime, sweepStart, ringVars, otherVars, imuVars, featVars>>

\* lines 163-174 on an empty sweep: laserCloudIn[0] and laserCloudIn[size_t(-1)]
\* are read outside the (empty) vector.  Undefined behaviour: the reads fault,
\* or they return whatever the memory holds.
ProcessOrientEmptyFault ==
  /\ pc = "orient"
  /\ cloudSize = 0
  /\ oobRead' = TRUE
  /\ pc' = "crashed"
  /\ UNCHANGED <<laserCloudIn, scanMapper, params, cloudSize, startOri, endOri,
                 halfPassed, ptIdx, laserCloudScans, laserCloud, scanIndices,
                 scanTime, sweepStart, ringVars, otherVars, imuVars, featVars>>

\* what an out-of-range read of the input cloud may return as an azimuth
GarbageOri == {-3, 0, 4}

ProcessOrientEmptyGarbage ==
  /\ pc = "orient"
  /\ cloudSize = 0
  /\ oobRead' = TRUE
  /\ \E g0 \in GarbageOri, g1 \in GarbageOri :
       /\ startOri' = g0
       /\ endOri' = AdjustEndOri(g1, g0)
  /\ halfPassed' = FALSE
  /\ laserCloudScans' = [r \in 1 .. scanMapper.nScanRings |-> <<>>]
  /\ ptIdx' = 0
  /\ pc' = "loop"
  /\ UNCHANGED <<laserCloudIn, scanMapper, params, cloudSize, laserCloud,
                 scanIndices, scanTime, sweepStart, ringVars, otherVars, imuVars, featVars>>

\* one iteration of the point loop, lines 177-234
PointSkipped(point) == ~IsFinitePoint(point) \/ IsZeroPoint(point)

PushFront(s, e) == <<e>> \o s
PushBack(s, e) == Append(s, e)

ProcessPoint ==
  /\ pc = "loop"
  /\ ptIdx < cloudSize
  /\ ~hasIMUData
  /\ LET point == Remap(laserCloudIn[ptIdx + 1])
         scanID == getRingForAngle(scanMapper, VertAngle(point))
         u == UnwrapOri(PointOri(point), startOri, endOri, halfPassed)
         relTime == RelTime(params.scanPeriod, u.ori, startOri, endOri)
         stored == [x |-> point.x, y |-> point.y, z |-> point.z,
                    intensity |-> Intensity(scanID, relTime)]
     IN  IF PointSkipped(point) \/ ~RingInRange(scanMapper, scanID)
         THEN UNCHANGED <<halfPassed, laserCloudScans>>
         ELSE /\ halfPassed' = u.halfPassed
              /\ laserCloudScans' =
                   [laserCloudScans EXCEPT ![scanID + 1] = PushBack(@, stored)]
  /\ ptIdx' = ptIdx + 1
  /\ UNCHANGED <<pc, laserCloudIn, scanMapper, params, cloudSize, startOri, endOri,
                 laserCloud, scanIndices, oobRead, scanTime, sweepStart, ringVars, otherVars, imuVars, featVars>>

\* lines 236-245: the sorted full resolution cloud and the ring ranges
RECURSIVE ConcatScans(_, _)
ConcatScans(scans, n) ==
  IF n = 0 THEN <<>> ELSE ConcatScans(scans, n - 1) \o scans[n]

RECURSIVE SizeUpTo(_, _)
SizeUpTo(scans, n) == IF n = 0 THEN 0 ELSE SizeUpTo(scans, n - 1) + Len(scans[n])

\* IndexRange range(cloudSize, 0); cloudSize += size; 
\* range.second = cloudSize > 0 ? cloudSize - 1 : 0
RingRange(before, after) == <<before, IF after > 0 THEN after - 1 ELSE 0>>

ProcessBuild ==
  /\ pc = "loop"
  /\ ptIdx >= cloudSize
  /\ laserCloud' = laserCloud \o ConcatScans(laserCloudScans, scanMapper.nScanRings)
  /\ scanIndices' = scanIndices \o
       [r \in 1 .. scanMapper.nScanRings |->
          RingRange(SizeUpTo(laserCloudScans, r - 1), SizeUpTo(laserCloudScans, r))]
  /\ cloudSize' = SizeUpTo(laserCloudScans, scanMapper.nScanRings)
  /\ pc' = "scan"
  /\ scanI' = 0
  /\ UNCHANGED <<laserCloudIn, scanMapper, params, startOri, endOri, halfPassed,
                 ptIdx, laserCloudScans, oobRead, scanTime, sweepStart, ringVars, otherVars, imuVars>>
  /\ UNCHANGED <<cornerPointsSharp, cornerPointsLessSharp, surfacePointsFlat,
                 surfacePointsLessFlat, surfPointsLessFlatScan, regionJ,
                 regSp, regEp, loopK, largestPickedNum, smallestPickedNum,
                 regionCurvature, regionLabel, regionSortIndices,
                 scanNeighborPicked, published, pickLog>>

(***************************************************************************)
(* ScanRegistration::extractFeatures, one action per step                  *)
(***************************************************************************)
ScanStartIdx == scanIndices[scanI + 1][1]
ScanEndIdx == scanIndices[scanI + 1][2]

\* line 552: "skip empty scans"
ScanTooShort(scanStartIdx, scanEndIdx, cr) == scanEndIdx <= scanStartIdx + 2 * cr

\* line 567: "skip empty regions"
RegionEmptyWide(sp, ep) == ep <= sp + 1
RegionEmpty(sp, ep) == ep <= sp

\* loop conditions of lines 579 and 602
CornerLoopCond(k, pickedNum, maxCornerLessSharp) == k > 0 /\ pickedNum < maxCornerLessSharp
FlatLoopCond(k, regionSize, pickedNum, maxSurfaceFlat) ==
  k < regionSize /\ pickedNum < maxSurfaceFlat

\* lines 584-585 and 607-608
CornerCandidate(picked, curvature, scanIdx, regionIdx, threshold) ==
  picked[scanIdx] = 0 /\ curvature[regionIdx] > threshold
FlatCandidateUnguarded(picked, curvature, scanIdx, regionIdx, threshold) ==
  curvature[regionIdx] >= 0
FlatCandidate(picked, curvature, scanIdx, regionIdx, threshold) ==
  picked[scanIdx] = 0 /\ curvature[regionIdx] < threshold

\* lines 588-593
CornerLabelAllSharp(pickedNum, maxCornerSharp) == CORNER_SHARP
CornerLabel(pickedNum, maxCornerSharp) ==
  IF pickedNum <= maxCornerSharp THEN CORNER_SHARP ELSE CORNER_LESS_SHARP

\* line 620
LessFlatSelectedStrict(label) == label = SURFACE_LESS_FLAT
LessFlatSelected(label) == label <= SURFACE_LESS_FLAT

RECURSIVE LessFlatOf(_, _, _, _, _)
LessFlatOf(cloud, label, sp, k, regionSize) ==
  IF k < regionSize
  THEN (IF LessFlatSelected(label[k]) THEN <<At(cloud, sp + k)>> ELSE <<>>)
       \o LessFlatOf(cloud, label, sp, k + 1, regionSize)
  ELSE <<>>

regionBuffers == <<regionCurvature, regionLabel, regionSortIndices>>
featClouds == <<cornerPointsSharp, cornerPointsLessSharp, surfacePointsFlat,
                surfacePointsLessFlat>>

\* lines 546-554: a scan too short for feature extraction is skipped
ScanSkip ==
  /\ pc = "scan"
  /\ scanI < Len(scanIndices)
  /\ ScanTooShort(ScanStartIdx, ScanEndIdx, params.curvatureRegion)
  /\ scanI' = scanI + 1
  /\ UNCHANGED <<pc, procRest, ringVars, otherVars, imuVars, featClouds, surfPointsLessFlatScan, regionJ,
                 regSp, regEp, loopK, largestPickedNum, smallestPickedNum,
                 regionBuffers, scanNeighborPicked, published, pickLog>>

\* lines 546-560: a scan is entered, its scan buffers are set
ScanBegin ==
  /\ pc = "scan"
  /\ scanI < Len(scanIndices)
  /\ ~ScanTooShort(ScanStartIdx, ScanEndIdx, params.curvatureRegion)
  /\ surfPointsLessFlatScan' = <<>>
  /\ scanNeighborPicked' =
       setScanBuffersFor(laserCloud, ScanStartIdx, ScanEndIdx, params.curvatureRegion)
  /\ regionJ' = 0
  /\ pickLog' = <<>>
  /\ pc' = "region"
  /\ UNCHANGED <<procRest, ringVars, otherVars, imuVars, featClouds, scanI, regSp, regEp, loopK,
                 largestPickedNum, smallestPickedNum, regionBuffers, published>>

\* line 546: the scan loop ends; process() goes on to publishResult()
ScanLoopEnd ==
  /\ pc = "scan"
  /\ scanI >= Len(scanIndices)
  /\ pc' = "publish"
  /\ UNCHANGED <<procRest, ringVars, otherVars, imuVars, featVars>>

\* lines 560-569: an empty region is skipped
RegionSkip ==
  /\ pc = "region"
  /\ regionJ < params.nFeatureRegions
  /\ LET sp == RegionSp(ScanStartIdx, ScanEndIdx, params.curvatureRegion,
                        params.nFeatureRegions, regionJ)
         ep == RegionEp(ScanStartIdx, ScanEndIdx, params.curvatureRegion,
                        params.nFeatureRegions, regionJ)
     IN  /\ RegionEmpty(sp, ep)
         /\ regSp' = sp
         /\ regEp' = ep
  /\ regionJ' = regionJ + 1
  /\ UNCHANGED <<pc, procRest, ringVars, otherVars, imuVars, featClouds, surfPointsLessFlatScan, scanI,
                 loopK, largestPickedNum, smallestPickedNum, regionBuffers,
                 scanNeighborPicked, published, pickLog>>

\* lines 560-579: a region is entered, its region buffers are set
RegionBegin ==
  /\ pc = "region"
  /\ regionJ < params.nFeatureRegions
  /\ LET sp == RegionSp(ScanStartIdx, ScanEndIdx, params.curvatureRegion,
                        params.nFeatureRegions, regionJ)
         ep == RegionEp(ScanStartIdx, ScanEndIdx, params.curvatureRegion,
                        params.nFeatureRegions, regionJ)
         b == setRegionBuffersFor(laserCloud, sp, ep, params.curvatureRegion)
     IN  /\ ~RegionEmpty(sp, ep)
         /\ regSp' = sp
         /\ regEp' = ep
         /\ regionCurvature' = b.curvature
         /\ regionSortIndices' = b.sortIndices
         /\ regionLabel' = b.label
         /\ loopK' = ep - sp + 1
  /\ largestPickedNum' = 0
  /\ pc' = "corner"
  /\ UNCHANGED <<procRest, ringVars, otherVars, imuVars, featClouds, surfPointsLessFlatScan, scanI,
                 regionJ, smallestPickedNum, scanNeighborPicked, published, pickLog>>

\* line 594: the picked corner is appended to the less sharp cloud whatever
\* its label
LessSharpPushOnlyLess(cloud, point, label) ==
  IF label = CORNER_LESS_SHARP THEN Append(cloud, point) ELSE cloud
LessSharpPush(cloud, point, label) == Append(cloud, point)

\* lines 579-598: one iteration of the corner loop that picks a corner
CornerPick ==
  /\ pc = "corner"
  /\ CornerLoopCond(loopK, largestPickedNum, params.maxCornerLessSharp)
  /\ LET k == loopK - 1
         idx == regionSortIndices[k]
         scanIdx == idx - ScanStartIdx
         regionIdx == idx - regSp
         label == CornerLabel(largestPickedNum + 1, params.maxCornerSharp)
     IN  /\ CornerCandidate(scanNeighborPicked, regionCurvature, scanIdx, regionIdx,
                            params.surfaceCurvatureThreshold)
         /\ largestPickedNum' = largestPickedNum + 1
         /\ regionLabel' = [regionLabel EXCEPT ![regionIdx] = label]
         /\ cornerPointsSharp' =
              IF largestPickedNum + 1 <= params.maxCornerSharp
              THEN Append(cornerPointsSharp, At(laserCloud, idx))
              ELSE cornerPointsSharp
         /\ cornerPointsLessSharp' =
              LessSharpPush(cornerPointsLessSharp, At(laserCloud, idx), label)
         /\ scanNeighborPicked' =
              markAsPicked(laserCloud, scanNeighborPicked, idx, scanIdx,
                           params.curvatureRegion)
         /\ pickLog' = Append(pickLog, [idx |-> idx, region |-> regionJ, label |-> label,
                                        curvature |-> regionCurvature[regionIdx]])
         /\ loopK' = k
  /\ UNCHANGED <<pc, procRest, ringVars, otherVars, imuVars, surfacePointsFlat, surfacePointsLessFlat,
                 surfPointsLessFlatScan, scanI, regionJ, regSp, regEp,
                 smallestPickedNum, regionCurvature, regionSortIndices, published>>

\* lines 579-598: one iteration of the corner loop that picks nothing
CornerPass ==
  /\ pc = "corner"
  /\ CornerLoopCond(loopK, largestPickedNum, params.maxCornerLessSharp)
  /\ LET k == loopK - 1
         idx == regionSortIndices[k]
     IN  /\ ~CornerCandidate(scanNeighborPicked, regionCurvature, idx - ScanStartIdx,
                             idx - regSp, params.surfaceCurvatureThreshold)
         /\ loopK' = k
  /\ UNCHANGED <<pc, procRest, ringVars, otherVars, imuVars, featClouds, surfPointsLessFlatScan, scanI,
                 regionJ, regSp, regEp, largestPickedNum, smallestPickedNum,
                 regionBuffers, scanNeighborPicked, published, pickLog>>

\* lines 579 and 601-602: the corner loop ends, the flat loop starts
CornerDone ==
  /\ pc = "corner"
  /\ ~CornerLoopCond(loopK, largestPickedNum, params.maxCornerLessSharp)
  /\ smallestPickedNum' = 0
  /\ loopK' = 0
  /\ pc' = "flat"
  /\ UNCHANGED <<procRest, ringVars, otherVars, imuVars, featClouds, surfPointsLessFlatScan, scanI,
                 regionJ, regSp, regEp, largestPickedNum, regionBuffers,
                 scanNeighborPicked, published, pickLog>>

\* lines 602-616: one iteration of the flat loop that picks a flat point
FlatPick ==
  /\ pc = "flat"
  /\ FlatLoopCond(loopK, regEp - regSp + 1, smallestPickedNum, params.maxSurfaceFlat)
  /\ LET idx == regionSortIndices[loopK]
         scanIdx == idx - ScanStartIdx
         regionIdx == idx - regSp
     IN  /\ FlatCandidate(scanNeighborPicked, regionCurvature, scanIdx, regionIdx,
                          params.surfaceCurvatureThreshold)
         /\ smallestPickedNum' = smallestPickedNum + 1
         /\ regionLabel' = [regionLabel EXCEPT ![regionIdx] = SURFACE_FLAT]
         /\ surfacePointsFlat' = Append(surfacePointsFlat, At(laserCloud, idx))
         /\ scanNeighborPicked' =
              markAsPicked(laserCloud, scanNeighborPicked, idx, scanIdx,
                           params.curvatureRegion)
         /\ pickLog' = Append(pickLog, [idx |-> idx, region |-> regionJ,
                                        label |-> SURFACE_FLAT,
                                        curvature |-> regionCurvature[regionIdx]])
  /\ loopK' = loopK + 1
  /\ UNCHANGED <<pc, procRest, ringVars, otherVars, imuVars, cornerPointsSharp, cornerPointsLessSharp,
                 surfacePointsLessFlat, surfPointsLessFlatScan, scanI, regionJ,
                 regSp, regEp, largestPickedNum, regionCurvature,
                 regionSortIndices, published>>

\* lines 602-616: one iteration of the flat loop that picks nothing
FlatPass ==
  /\ pc = "flat"
  /\ FlatLoopCond(loopK, regEp - regSp + 1, smallestPickedNum, params.maxSurfaceFlat)
  /\ LET idx == regionSortIndices[loopK]
     IN  ~FlatCandidate(scanNeighborPicked, regionCurvature, idx - ScanStartIdx,
                        idx - regSp, params.surfaceCurvatureThreshold)
  /\ loopK' = loopK + 1
  /\ UNCHANGED <<pc, procRest, ringVars, otherVars, imuVars, featClouds, surfPointsLessFlatScan, scanI,
                 regionJ, regSp, regEp, largestPickedNum, smallestPickedNum,
                 regionBuffers, scanNeighborPicked, published, pickLog>>

\* line 602: the flat loop ends
FlatDone ==
  /\ pc = "flat"
  /\ ~FlatLoopCond(loopK, regEp - regSp + 1, smallestPickedNum, params.maxSurfaceFlat)
  /\ pc' = "lessflat"
  /\ UNCHANGED <<procRest, ringVars, otherVars, imuVars, featVars>>

\* lines 618-623: the region's less flat points go to the scan's less flat cloud
LessFlatCollect ==
  /\ pc = "lessflat"
  /\ surfPointsLessFlatScan' = surfPointsLessFlatScan
       \o LessFlatOf(laserCloud, regionLabel, regSp, 0, regEp - regSp + 1)
  /\ regionJ' = regionJ + 1
  /\ pc' = "region"
  /\ UNCHANGED <<procRest, ringVars, otherVars, imuVars, featClouds, scanI, regSp, regEp, loopK,
                 largestPickedNum, smallestPickedNum, regionBuffers,
                 scanNeighborPicked, published, pickLog>>

\* lines 560 and 626-633: all regions done; the scan's less flat cloud is
\* down sized and appended to _surfacePointsLessFlat
ScanEnd ==
  /\ pc = "region"
  /\ regionJ >= params.nFeatureRegions
  /\ surfacePointsLessFlat' = surfacePointsLessFlat
       \o DownSize(surfPointsLessFlatScan, params.lessFlatFilterSize)
  /\ scanI' = scanI + 1
  /\ pc' = "scan"
  /\ UNCHANGED <<procRest, ringVars, otherVars, imuVars, cornerPointsSharp, cornerPointsLessSharp,
                 surfacePointsFlat, surfPointsLessFlatScan, regionJ, regSp, regEp,
                 loopK, largestPickedNum, smallestPickedNum, regionBuffers,
                 scanNeighborPicked, published, pickLog>>

\* publishResult(), for the IMU states of an empty IMU history (all zero): the
\* five clouds and the IMU transformation, stamped with _sweepStart
ZeroVector == <<0, 0, 0>>
PublishResult ==
  /\ pc = "publish"
  /\ published' = Append(published,
       [stamp |-> sweepStart,
        laserCloud |-> laserCloud,
        cornerPointsSharp |-> cornerPointsSharp,
        cornerPointsLessSharp |-> cornerPointsLessSharp,
        surfacePointsFlat |-> surfacePointsFlat,
        surfacePointsLessFlat |-> surfacePointsLessFlat,
        imuTrans |-> <<ZeroVector, ZeroVector, ZeroVector, ZeroVector>>])
  /\ pc' = "done"
  /\ UNCHANGED <<procRest, ringVars, otherVars, imuVars, featClouds, surfPointsLessFlatScan, scanI,
                 regionJ, regSp, regEp, loopK, largestPickedNum, smallestPickedNum,
                 regionBuffers, scanNeighborPicked, pickLog>>

ExtractFeatures ==
  \/ ScanSkip
  \/ ScanBegin
  \/ ScanLoopEnd
  \/ RegionSkip
  \/ RegionBegin
  \/ CornerPick
  \/ CornerPass
  \/ CornerDone
  \/ FlatPick
  \/ FlatPass
  \/ FlatDone
  \/ LessFlatCollect
  \/ ScanEnd

(***************************************************************************)
(* Specification SpecProcess: process() with an empty IMU history on every *)
(* sweep of at most MaxCloud points of PointUniverse (3-ring mapper) and   *)
(* on the sweeps LongSweeps of LongCloud level points (16-ring mapper).    *)
(***************************************************************************)
MaxCloud == 3

InPt(x, y, z, nan) == [x |-> x, y |-> y, z |-> z, nan |-> nan]
\* lidar frame: x forward, y left, z up; decimetres
PointUniverse ==
  { InPt(4, 0, 0, {}),      \* azimuth 0, level
    InPt(0, -4, 0, {}),     \* a quarter turn on, level
    InPt(4, 4, 0, {}),      \* an eighth turn back, level
    InPt(-4, 0, 4, {}),     \* half a turn, 45 deg up
    InPt(4, 4, -4, {}),     \* 35.264 deg down
    InPt(0, 0, 4, {}),      \* straight up, 90 deg
    InPt(0, 0, 0, {}),      \* the origin
    InPt(4, 0, 0, {"z"}) }  \* non-finite height

\* longer sweeps of one ring: level points at azimuth 0, with the points at the
\* positions in turned an eighth of a turn back
LongCloud == 7
LongSweep(turned) ==
  [q \in 1 .. LongCloud |->
     IF q \in turned THEN InPt(4, 4, 0, {}) ELSE InPt(4, 0, 0, {})]
LongSweeps == {LongSweep(turned) : turned \in {{}, {4}, {3, 4}, {2, 6}}}

\* a linear mapper that setup() accepts: -45 .. 45 deg, 3 rings
Linear3 == [lowerBound |-> -45, upperBound |-> 45, nScanRings |-> 3]

\* scan periods setup() accepts (> 0), in milliseconds
ScanPeriods == {100, 2500}

\* feature region counts setup() accepts (>= 1); 6 is the default
FeatureRegionCounts == {1, 6}

\* a point left in _laserCloud by the previous sweep
StalePoint == [x |-> 1, y |-> 1, z |-> 1, intensity |-> [num |-> 0, den |-> 1]]

\* parameter values setup() accepts; lengths in dm, squared lengths in dm^2
\* (surface_curvature_threshold 0.1, less_flat_filter_size 0.2), times in ms
DefaultParams ==
  [scanPeriod |-> 100, curvatureRegion |-> 1, nFeatureRegions |-> 1,
   maxCornerSharp |-> 1, maxCornerLessSharp |-> 2, maxSurfaceFlat |-> 1,
   surfaceCurvatureThreshold |-> 10, lessFlatFilterSize |-> 2,
   imuHistorySize |-> 2, lidarModel |-> ""]

IdleFeatRest ==
  /\ surfPointsLessFlatScan = <<>>
  /\ scanI = 0
  /\ regionJ = 0
  /\ regSp = 0
  /\ regEp = 0
  /\ loopK = 0
  /\ largestPickedNum = 0
  /\ smallestPickedNum = 0
  /\ regionCurvature = <<>>
  /\ regionLabel = <<>>
  /\ regionSortIndices = <<>>
  /\ scanNeighborPicked = <<>>
  /\ published = <<>>
  /\ pickLog = <<>>

IdleFeat ==
  /\ cornerPointsSharp = <<>>
  /\ cornerPointsLessSharp = <<>>
  /\ surfacePointsFlat = <<>>
  /\ surfacePointsLessFlat = <<>>
  /\ IdleFeatRest

IdleProcRest ==
  /\ pc = "idle"
  /\ laserCloudIn = <<>>
  /\ scanMapper = VLP16
  /\ params = DefaultParams
  /\ cloudSize = 0
  /\ startOri = 0
  /\ endOri = 0
  /\ halfPassed = FALSE
  /\ ptIdx = 0
  /\ laserCloudScans = <<>>
  /\ oobRead = FALSE
  /\ scanTime = 0
  /\ sweepStart = 0

IdleProc ==
  /\ laserCloud = <<>>
  /\ scanIndices = <<>>
  /\ IdleProcRest

IdleRing ==
  /\ pcRing = "idle"
  /\ angleIn = 0
  /\ scanIDOut = 0
  /\ keptOut = FALSE

IdleImu ==
  /\ pcImu = "idle"
  /\ imuHistory = <<>>
  /\ imuIdx = 0
  /\ imuStart = NoImuState
  /\ imuCur = NoImuState
  /\ relTimeIn = 0
  /\ imuCalls = 0
  /\ newSweepIn = TRUE
  /\ scanTimeIn = 0

\* every component of the three poses was written by update 0 (construction)
IdlePose ==
  /\ transformMapped = [i \in 1 .. 6 |-> 0]
  /\ transformBefMapped = [i \in 1 .. 6 |-> 0]
  /\ transformAftMapped = [i \in 1 .. 6 |-> 0]
  /\ mainThreadMutex = "free"
  /\ writeIdx = 0
  /\ poseUpdates = 0
  /\ pcReader = "idle"
  /\ poseRead = <<>>

IdleSetup ==
  /\ pcSetup = "idle"
  /\ nodeParams = <<>>
  /\ paramsBefore = DefaultParams
  /\ mapperBefore = VLP16
  /\ subscribed = {}
  /\ setupReturn = "none"
  /\ errorsReported = {}

IdleSort ==
  /\ sortI = 0
  /\ sortJ = 0

\* process() is called directly: no cloud message was handled or is held back
IdleMsg ==
  /\ systemDelay = 0
  /\ msgsReceived = 0

InitProcess ==
  /\ IdleRing
  /\ IdlePose
  /\ IdleSetup
  /\ IdleSort
  /\ IdleMsg
  /\ IdleImu
  /\ pc = "reset"
  /\ \/ /\ laserCloudIn \in UNION {[1 .. n -> PointUniverse] : n \in 0 .. MaxCloud}
        /\ scanMapper = Linear3
        /\ params \in {[DefaultParams EXCEPT !.scanPeriod = sp] : sp \in ScanPeriods}
     \/ /\ laserCloudIn \in LongSweeps
        /\ scanMapper = VLP16
        /\ params \in {[DefaultParams EXCEPT !.nFeatureRegions = n] :
                          n \in FeatureRegionCounts}
  /\ cloudSize = 0
  /\ startOri = 0
  /\ endOri = 0
  /\ halfPassed = FALSE
  /\ ptIdx = 0
  /\ laserCloudScans = <<>>
  /\ \E stale \in BOOLEAN :
       /\ laserCloud = IF stale THEN <<StalePoint>> ELSE <<>>
       /\ scanIndices = IF stale THEN <<<<0, 0>>>> ELSE <<>>
  /\ oobRead = FALSE
  /\ scanTime = 0
  /\ sweepStart = 0
  /\ IdleFeat

NextProcess ==
  \/ ProcessReset
  \/ ProcessOrient
  \/ ProcessOrientEmptyFault
  \/ ProcessOrientEmptyGarbage
  \/ ProcessPoint
  \/ ProcessBuild
  \/ ExtractFeatures
  \/ PublishResult

SpecProcess == InitProcess /\ [][NextProcess]_vars

(***************************************************************************)
(* Claims on process(), checked under SpecProcess                          *)
(***************************************************************************)
\* process() has built _laserCloud and _scanIndices
Completed == pc \in {"scan", "region", "corner", "flat", "lessflat", "publish", "done"}

Coords(p) == <<p.x, p.y, p.z>>
CoordsOf(cloud) == [q \in DOMAIN cloud |-> Coords(cloud[q])]
RingOf(p) == getRingForAngle(scanMapper, VertAngle(p))

\* the input points, axis-remapped, that are finite, have squared magnitude
\* >= 0.0001 and map to ring r, in input order
KeptOfRing(r) ==
  LET remapped == [q \in DOMAIN laserCloudIn |-> Remap(laserCloudIn[q])]
  IN  CoordsOf(SelectSeq(remapped,
        LAMBDA p : /\ IsFinitePoint(p)
                   /\ 100 * SquaredNorm(p) >= 1
                   /\ RingOf(p) = r))

RECURSIVE KeptUpTo(_)
KeptUpTo(r) == IF r < 0 THEN <<>> ELSE KeptUpTo(r - 1) \o KeptOfRing(r)

\* C2: after process() on a sweep with no IMU data, _laserCloud holds exactly
\* the input points that are finite, have squared magnitude >= 0.0001 and map
\* to a ring in [0, nRings), axis-remapped and otherwise unmodified, grouped by
\* ascending ring id and within each ring in input order.
C2_CloudIsFilteredInput ==
  (Completed /\ ~hasIMUData) =>
    CoordsOf(laserCloud) = KeptUpTo(scanMapper.nScanRings - 1)

\* C2 witness: a finished three-point sweep of which one point was dropped and
\* two different points went to the same ring.
C2_Witness ==
  /\ pc = "done"
  /\ Len(laserCloudIn) = 3
  /\ Len(laserCloud) = 2
  /\ RingOf(laserCloud[1]) = RingOf(laserCloud[2])
  /\ Coords(laserCloud[1]) # Coords(laserCloud[2])

\* the indices of _laserCloud in the interval [first, second] of a range
RangeIdxs(range) == {q \in 0 .. Len(laserCloud) - 1 : range[1] <= q /\ q <= range[2]}

\* C3 (as stated): after process() the ranges of _scanIndices are ordered by
\* ring id and the intervals [first, second] of two different rings share no
\* index of _laserCloud, also when some rings received no points.
C3_AsStated ==
  Completed =>
    \A r1 \in DOMAIN scanIndices : \A r2 \in DOMAIN scanIndices :
      r1 < r2 =>
        /\ scanIndices[r1][1] <= scanIndices[r2][1]
        /\ RangeIdxs(scanIndices[r1]) \cap RangeIdxs(scanIndices[r2]) = {}

\* C4 (as stated): every point stored in _laserCloud has intensity
\* ring + relTime with 0 <= relTime < 1, for every sweep and accepted scanPeriod.
C4_AsStated ==
  Completed =>
    \A q \in DOMAIN laserCloud :
      LET i == laserCloud[q].intensity
          relNum == i.num - RingOf(laserCloud[q]) * i.den
      IN  /\ i.den > 0
          /\ 0 <= relNum
          /\ relNum < i.den

\* C5 (as stated): on every input sweep, the empty sweep included, process()
\* reads no element outside the input cloud, divides by no zero when computing
\* relative time, and does not crash.
C5_AsStated ==
  /\ ~oobRead
  /\ pc # "crashed"
  /\ pc = "loop" => endOri - startOri # 0

\* C13 (as stated): with an empty IMU history, reset() and process() leave
\* _imuStart and _imuCur as they were, every retained point has the
\* axis-remapped coordinates of an input point, and every sweep is carried
\* through segmentation and feature extraction to publication: process() does
\* not stop before, and what it publishes is the registered cloud.
C13_AsStated ==
  ~hasIMUData =>
    /\ imuStart = NoImuState
    /\ imuCur = NoImuState
    /\ pc # "crashed"
    /\ Completed =>
         \A q \in DOMAIN laserCloud : \E k \in DOMAIN laserCloudIn :
           Coords(laserCloud[q]) = Coords(Remap(laserCloudIn[k]))
    /\ pc = "done" =>
         /\ Len(published) = 1
         /\ published[1].laserCloud = laserCloud
         /\ Len(scanIndices) = scanMapper.nScanRings

(***************************************************************************)
(* Specification SpecFeat: extractFeatures() and publishResult() on every  *)
(* registered cloud of two rings, one of them empty and the other holding  *)
(* MinScan .. MaxScan points of FeatUniverse, as process() leaves it.      *)
(***************************************************************************)
MinScan == 3
MaxScan == 7

\* registered points (x lateral, y up, z forward; decimetres) of ring r
FeatPt(x, z, r) == [x |-> x, y |-> 0, z |-> z, intensity |-> [num |-> r, den |-> 1]]
FeatUniverse(r) == {FeatPt(0, 10, r), FeatPt(2, 10, r), FeatPt(6, 10, r)}

\* curvatureRegion, nFeatureRegions and the ring that holds the points
FeatCases == {<<1, 1, 0>>, <<1, 2, 1>>, <<2, 1, 0>>}

InitFeat ==
  /\ IdleRing
  /\ IdlePose
  /\ IdleSetup
  /\ IdleSort
  /\ IdleMsg
  /\ IdleImu
  /\ pc = "scan"
  /\ laserCloudIn = <<>>
  /\ scanMapper = [lowerBound |-> -15, upperBound |-> 15, nScanRings |-> 2]
  /\ \E n \in MinScan .. MaxScan, q \in FeatCases :
       /\ params = [DefaultParams EXCEPT !.curvatureRegion = q[1],
                                         !.nFeatureRegions = q[2]]
       /\ laserCloud \in [1 .. n -> FeatUniverse(q[3])]
       /\ scanIndices = IF q[3] = 0 THEN <<RingRange(0, n), RingRange(n, n)>>
                        ELSE <<RingRange(0, 0), RingRange(0, n)>>
       /\ cloudSize = n
  /\ startOri = 0
  /\ endOri = 8
  /\ halfPassed = FALSE
  /\ ptIdx = 0
  /\ laserCloudScans = <<>>
  /\ oobRead = FALSE
  /\ scanTime = 0
  /\ sweepStart = 0
  /\ IdleFeat

NextFeat == ExtractFeatures \/ PublishResult

SpecFeat == InitFeat /\ [][NextFeat]_vars

(***************************************************************************)
(* Claims on extractFeatures, checked under SpecFeat                       *)
(***************************************************************************)
\* a region is being processed: its buffers are those of region regionJ
InRegion == pc \in {"corner", "flat", "lessflat"}
RegionIdxs == 0 .. regEp - regSp
LabelCount(labels) == Cardinality({q \in RegionIdxs : regionLabel[q] \in labels})
\* the picks of the current region, in the order they were made
RegionPicks == SelectSeq(pickLog, LAMBDA e : e.region = regionJ)
CornerPicks == SelectSeq(RegionPicks, LAMBDA e : e.label # SURFACE_FLAT)

\* C6: in every processed region at most maxCornerSharp points are labelled
\* CORNER_SHARP, at most maxCornerLessSharp are labelled CORNER_SHARP or
\* CORNER_LESS_SHARP, at most maxSurfaceFlat are labelled SURFACE_FLAT, and the
\* corner picks are made by descending curvature, the first maxCornerSharp of
\* them being the sharp ones.
C6_Quotas ==
  InRegion =>
    /\ LabelCount({CORNER_SHARP}) <= params.maxCornerSharp
    /\ LabelCount({CORNER_SHARP, CORNER_LESS_SHARP}) <= params.maxCornerLessSharp
    /\ LabelCount({SURFACE_FLAT}) <= params.maxSurfaceFlat
    /\ LabelCount({CORNER_SHARP, CORNER_LESS_SHARP}) = Len(CornerPicks)
    /\ \A q \in DOMAIN CornerPicks :
         /\ regionLabel[CornerPicks[q].idx - regSp] = CornerPicks[q].label
         /\ (CornerPicks[q].label = CORNER_SHARP) <=> (q <= params.maxCornerSharp)
         /\ q > 1 => CornerPicks[q - 1].curvature >= CornerPicks[q].curvature

\* C6 witness: a region whose corner loop stopped at the quota, with one sharp
\* and one less sharp corner labelled and a further corner candidate left
\* unpicked.
C6_Witness ==
  /\ pc = "flat"
  /\ largestPickedNum = params.maxCornerLessSharp
  /\ LabelCount({CORNER_SHARP}) = 1
  /\ LabelCount({CORNER_LESS_SHARP}) = 1
  /\ \E q \in RegionIdxs :
       /\ regionLabel[q] = SURFACE_LESS_FLAT
       /\ regionCurvature[q] > params.surfaceCurvatureThreshold
       /\ scanNeighborPicked[regSp + q - ScanStartIdx] = 0

\* every consecutive pair of points from cloud index a to cloud index b is
\* within squared distance 0.05 (5 dm^2)
Lo(a, b) == IF a < b THEN a ELSE b
Hi(a, b) == IF a < b THEN b ELSE a
NoGapBetween(a, b) ==
  \A q \in Lo(a, b) .. Hi(a, b) - 1 :
    calcSquaredDiff(At(laserCloud, q + 1), At(laserCloud, q)) <= 5
WithinRegion(a, b) == Hi(a, b) - Lo(a, b) <= params.curvatureRegion

\* the step is a pick of cloud index idx
PickStep(idx) ==
  /\ Len(pickLog') = Len(pickLog) + 1
  /\ pickLog'[Len(pickLog')].idx = idx

\* C7: within one scan, once a point is selected no other point within
\* curvatureRegion index positions of it is selected afterwards, in the same or
\* a later region, provided every consecutive pair of points between them is
\* within squared distance 0.05; and a pick marks no point beyond the first
\* consecutive pair farther apart than that.
C7_SuppressedPairs ==
  \A q \in DOMAIN pickLog : \A r \in DOMAIN pickLog :
    (q < r /\ WithinRegion(pickLog[q].idx, pickLog[r].idx))
      => ~NoGapBetween(pickLog[q].idx, pickLog[r].idx)

C7_StopsAtGap ==
  \A idx \in 0 .. Len(laserCloud) - 1 :
    PickStep(idx) =>
      \A n \in ScanStartIdx .. ScanEndIdx :
        (n # idx /\ scanNeighborPicked[n - ScanStartIdx] = 0) =>
          (scanNeighborPicked'[n - ScanStartIdx] = 1
             <=> (WithinRegion(idx, n) /\ NoGapBetween(idx, n)))

C7_Suppression == [](C7_SuppressedPairs) /\ [][C7_StopsAtGap]_vars

\* C7 witness: two picks of one scan within curvatureRegion of each other, a
\* depth discontinuity between them, and a third point that the first pick
\* suppressed.
C7_Witness ==
  /\ pc = "publish"
  /\ \E q \in DOMAIN pickLog : \E r \in DOMAIN pickLog :
       /\ q < r
       /\ WithinRegion(pickLog[q].idx, pickLog[r].idx)
       /\ ~NoGapBetween(pickLog[q].idx, pickLog[r].idx)
       /\ \E n \in 0 .. Len(laserCloud) - 1 :
            /\ n # pickLog[q].idx
            /\ WithinRegion(pickLog[q].idx, n)
            /\ NoGapBetween(pickLog[q].idx, n)
            /\ Curvature(laserCloud, pickLog[q].idx, params.curvatureRegion)
                 = Curvature(laserCloud, n, params.curvatureRegion)

\* the points of the current region whose label is in labels, in cloud order
RegionPointsLabelled(labels) ==
  LET idxs == SelectSeq([q \in 1 .. regEp - regSp + 1 |-> q - 1],
                        LAMBDA q : regionLabel[q] \in labels)
  IN  [q \in DOMAIN idxs |-> At(laserCloud, regSp + idxs[q])]

LessFlatStep == pc = "lessflat" /\ pc' = "region"

\* C8 (as stated): the points appended to the scan's less flat cloud are
\* exactly the region's points not labelled sharp corner, less sharp corner or
\* flat surface.
C8_AsStated ==
  [][LessFlatStep =>
       surfPointsLessFlatScan' =
         surfPointsLessFlatScan \o RegionPointsLabelled({SURFACE_LESS_FLAT})]_vars

\* C8 (amended): the points appended to the scan's less flat cloud are exactly
\* the region's points not labelled sharp corner or less sharp corner: the
\* points labelled flat surface are appended as well.
C8_LessFlatCloud ==
  [][LessFlatStep =>
       surfPointsLessFlatScan' =
         surfPointsLessFlatScan
           \o RegionPointsLabelled({SURFACE_LESS_FLAT, SURFACE_FLAT})]_vars

\* C8 witness: a region with a corner, a flat and an unlabelled point has been
\* collected, and the less flat cloud holds the flat point.
C8_Witness ==
  /\ pc = "region"
  /\ pickLog # <<>>
  /\ pickLog[Len(pickLog)].region = regionJ - 1
  /\ LabelCount({SURFACE_FLAT}) >= 1
  /\ LabelCount({CORNER_SHARP}) >= 1
  /\ LabelCount({SURFACE_LESS_FLAT}) >= 1
  /\ \E q \in RegionIdxs :
       /\ regionLabel[q] = SURFACE_FLAT
       /\ \E r \in DOMAIN surfPointsLessFlatScan :
            surfPointsLessFlatScan[r] = At(laserCloud, regSp + q)

\* C9: during an extraction pass each point of the region being processed holds
\* exactly one of the four labels, no point is picked twice, and no step changes
\* a label once it is CORNER_SHARP, CORNER_LESS_SHARP or SURFACE_FLAT.
C9_OneLabel ==
  /\ InRegion =>
       \A q \in RegionIdxs :
         /\ regionLabel[q] \in {CORNER_SHARP, CORNER_LESS_SHARP, SURFACE_LESS_FLAT,
                                SURFACE_FLAT}
         /\ regionLabel[q] # SURFACE_LESS_FLAT
              <=> \E r \in DOMAIN RegionPicks :
                    /\ RegionPicks[r].idx = regSp + q
                    /\ RegionPicks[r].label = regionLabel[q]
  /\ \A q \in DOMAIN pickLog : \A r \in DOMAIN pickLog :
       q # r => pickLog[q].idx # pickLog[r].idx

C9_LabelKept ==
  (InRegion /\ pc' \in {"corner", "flat", "lessflat", "region"}) =>
    \A q \in RegionIdxs :
      regionLabel[q] # SURFACE_LESS_FLAT => regionLabel'[q] = regionLabel[q]

C9_LabelFinal == [](C9_OneLabel) /\ [][C9_LabelKept]_vars

\* C9 witness: both loops of a region are over, and the region holds a sharp
\* corner, a less sharp corner, a flat point and an unlabelled point.
C9_Witness ==
  /\ pc = "lessflat"
  /\ Len(RegionPicks) = 3
  /\ LabelCount({CORNER_SHARP}) = 1
  /\ LabelCount({CORNER_LESS_SHARP}) = 1
  /\ LabelCount({SURFACE_FLAT}) = 1
  /\ LabelCount({SURFACE_LESS_FLAT}) >= 1

\* a region of the current scan is about to be entered or skipped (line 560)
RegionEntered == pc = "region" /\ regionJ < params.nFeatureRegions

\* the first and the last index of the current scan with curvatureRegion
\* neighbours on both sides
FirstInner == ScanStartIdx + params.curvatureRegion
LastInner == ScanEndIdx - params.curvatureRegion

RegionLeftAlone ==
  /\ pc' = "region"
  /\ regionJ' = regionJ + 1
  /\ UNCHANGED <<featClouds, surfPointsLessFlatScan, regionBuffers,
                 scanNeighborPicked, pickLog>>

\* C19 (as stated): a region with fewer than 2 * curvatureRegion points is
\* skipped entirely: no point of it is labelled, marked picked or appended to
\* a feature cloud.
C19_AsStated ==
  [][RegionEntered /\ regEp' - regSp' + 1 < 2 * params.curvatureRegion =>
       RegionLeftAlone]_vars

\* C19 (amended): a region is skipped entirely exactly when it has at most one
\* point (ep <= sp); a region of two or more points is processed even when it
\* has fewer than 2 * curvatureRegion points.  Only a whole scan is tested
\* against 2 * curvatureRegion: it is skipped when scanEnd <= scanStart +
\* 2 * curvatureRegion.
C19_SkipsOnlyEmpty ==
  [][/\ RegionEntered =>
          IF regEp' - regSp' + 1 <= 1
          THEN RegionLeftAlone
          ELSE /\ pc' = "corner"
               /\ DOMAIN regionLabel' = 0 .. regEp' - regSp'
     /\ pc = "scan" /\ scanI < Len(scanIndices) =>
          IF ScanEndIdx <= ScanStartIdx + 2 * params.curvatureRegion
          THEN /\ pc' = "scan"
               /\ scanI' = scanI + 1
               /\ UNCHANGED <<featClouds, surfPointsLessFlatScan, regionBuffers,
                              scanNeighborPicked, pickLog>>
          ELSE pc' = "region"]_vars

\* C19 witness: with curvatureRegion 2, a region of two points (fewer than 4)
\* has been processed and its points are being appended to the less flat cloud.
C19_Witness ==
  /\ pc = "lessflat"
  /\ params.curvatureRegion = 2
  /\ regEp - regSp + 1 = 2
  /\ DOMAIN regionLabel = 0 .. 1

(***************************************************************************)
(* Specification SpecScanBuf: the start of extractFeatures() on one ring   *)
(* of MinScan .. MaxBufScan points, some of them behind one another as     *)
(* seen from the sensor, so that setScanBuffersFor meets occlusions.       *)
(***************************************************************************)
MaxBufScan == 6

\* two points at 1 m, 0.2 m apart, and one behind the first at 2 m
ScanBufUniverse == {FeatPt(0, 10, 0), FeatPt(2, 10, 0), FeatPt(0, 20, 0)}

\* values of curvatureRegion setup() accepts
ScanBufRegions == {1, 2}

InitScanBuf ==
  /\ IdleRing
  /\ IdlePose
  /\ IdleSetup
  /\ IdleSort
  /\ IdleMsg
  /\ IdleImu
  /\ IdleFeat
  /\ pc = "scan"
  /\ laserCloudIn = <<>>
  /\ scanMapper = [lowerBound |-> -15, upperBound |-> 15, nScanRings |-> 1]
  /\ \E n \in MinScan .. MaxBufScan, cr \in ScanBufRegions :
       /\ params = [DefaultParams EXCEPT !.curvatureRegion = cr]
       /\ laserCloud \in [1 .. n -> ScanBufUniverse]
       /\ scanIndices = <<RingRange(0, n)>>
       /\ cloudSize = n
  /\ startOri = 0
  /\ endOri = 8
  /\ halfPassed = FALSE
  /\ ptIdx = 0
  /\ laserCloudScans = <<>>
  /\ oobRead = FALSE
  /\ scanTime = 0
  /\ sweepStart = 0

NextScanBuf == ScanSkip \/ ScanBegin

SpecScanBuf == InitScanBuf /\ [][NextScanBuf]_vars

\* setScanBuffersFor has just run on the scan
ScanBuffersSet == pc = "region" /\ regionJ = 0

\* the loop range of line 686
InnerIdxs == FirstInner .. LastInner - 1

\* the squared gaps of point i to its neighbours and its squared range, dm^2
GapNext(i) == calcSquaredDiff(At(laserCloud, i + 1), At(laserCloud, i))
GapPrevious(i) == calcSquaredDiff(At(laserCloud, i), At(laserCloud, i - 1))
SquaredRange(i) == calcSquaredPointDistance(At(laserCloud, i))

\* both gaps below, or both above, 0.0002 = 1 / 5000 of the squared range
BothGapsSmall(i) ==
  5000 * GapNext(i) < SquaredRange(i) /\ 5000 * GapPrevious(i) < SquaredRange(i)
BothGapsLarge(i) ==
  5000 * GapNext(i) > SquaredRange(i) /\ 5000 * GapPrevious(i) > SquaredRange(i)

\* index q is marked because a point i and its successor lie behind one
\* another: the nearer side's curvatureRegion + 1 points are marked
OcclusionMarked(q) ==
  \E i \in InnerIdxs :
    /\ GapNext(i) > 10
    /\ WeightedDistanceSmall(At(laserCloud, i), At(laserCloud, i + 1))
    /\ IF SquaredRange(i) > SquaredRange(i + 1)
       THEN q \in i - params.curvatureRegion .. i
       ELSE q \in i + 1 .. i + params.curvatureRegion + 1

Marked(q) == scanNeighborPicked[q - ScanStartIdx] = 1

\* C20 (as stated): setScanBuffersFor marks as picked every point of the loop
\* range whose squared gaps to the previous and the next point are both below
\* 0.0002 * squaredRange, and does not mark a point for this reason when
\* either gap is not below it.
C20_AsStated ==
  ScanBuffersSet =>
    \A i \in InnerIdxs :
      /\ BothGapsSmall(i) => Marked(i)
      /\ ~BothGapsSmall(i) /\ ~OcclusionMarked(i) => ~Marked(i)

\* C20 (amended): setScanBuffersFor marks as picked every point of the loop
\* range whose squared gaps to the previous and the next point are both above
\* 0.0002 * squaredRange (isolated points), and does not mark a point for this
\* reason when either gap is not above it: the marked points are exactly
\* these and the points marked for an occlusion.
C20_MarksIsolated ==
  ScanBuffersSet =>
    \A q \in ScanStartIdx .. ScanEndIdx :
      Marked(q) <=> (OcclusionMarked(q) \/ (q \in InnerIdxs /\ BothGapsLarge(q)))

\* C20 witness: after setScanBuffersFor one point with both gaps large is
\* marked without an occlusion, and one with both gaps small is not marked.
C20_Witness ==
  /\ ScanBuffersSet
  /\ \E i \in InnerIdxs : BothGapsLarge(i) /\ ~OcclusionMarked(i) /\ Marked(i)
  /\ \E i \in InnerIdxs : BothGapsSmall(i) /\ ~Marked(i)

(***************************************************************************)
(* Specification SpecSort: setRegionBuffersFor, its sorting loops taken    *)
(* one iteration at a time, on every region of 1 .. MaxRegion points of    *)
(* FeatUniverse with one more point on each side (curvatureRegion 1).      *)
(***************************************************************************)
MaxRegion == 4

\* what setRegionBuffersFor leaves alone
sortKept == <<procRest, ringVars, imuVars, poseVars, setupVars, msgVars, featClouds,
              surfPointsLessFlatScan, scanI, regionJ, loopK, largestPickedNum,
              smallestPickedNum, scanNeighborPicked, published, pickLog>>

InitSort ==
  /\ IdleRing
  /\ IdlePose
  /\ IdleSetup
  /\ IdleSort
  /\ IdleMsg
  /\ IdleImu
  /\ IdleFeat
  /\ pc = "sortbuffers"
  /\ laserCloudIn = <<>>
  /\ scanMapper = [lowerBound |-> -15, upperBound |-> 15, nScanRings |-> 1]
  /\ params = DefaultParams
  /\ \E n \in 1 .. MaxRegion :
       /\ laserCloud \in [1 .. n + 2 * params.curvatureRegion -> FeatUniverse(0)]
       /\ scanIndices = <<RingRange(0, n + 2 * params.curvatureRegion)>>
       /\ cloudSize = n + 2 * params.curvatureRegion
  /\ startOri = 0
  /\ endOri = 8
  /\ halfPassed = FALSE
  /\ ptIdx = 0
  /\ laserCloudScans = <<>>
  /\ oobRead = FALSE
  /\ scanTime = 0
  /\ sweepStart = 0

\* lines 642-664: the buffers are resized, the curvatures computed and the
\* sort indices reset; startIdx .. endIdx are the points with a neighbour on
\* each side
SortBuffers ==
  /\ pc = "sortbuffers"
  /\ LET startIdx == ScanStartIdx + params.curvatureRegion
         endIdx == ScanEndIdx - params.curvatureRegion
         regionSize == endIdx - startIdx + 1
     IN  /\ regSp' = startIdx
         /\ regEp' = endIdx
         /\ regionCurvature' =
              [q \in 0 .. regionSize - 1 |->
                 Curvature(laserCloud, startIdx + q, params.curvatureRegion)]
         /\ regionSortIndices' = [q \in 0 .. regionSize - 1 |-> startIdx + q]
         /\ regionLabel' = [q \in 0 .. regionSize - 1 |-> SURFACE_LESS_FLAT]
  /\ sortI' = 1
  /\ pc' = "sortouter"
  /\ UNCHANGED <<sortJ, sortKept>>

\* line 667: for (size_t i = 1; i < regionSize; i++), the body is entered
SortOuterEnter ==
  /\ pc = "sortouter"
  /\ sortI < regEp - regSp + 1
  /\ sortJ' = sortI
  /\ pc' = "sortinner"
  /\ UNCHANGED <<sortI, regSp, regEp, regionBuffers, sortKept>>

\* line 667: i has reached regionSize
SortOuterExit ==
  /\ pc = "sortouter"
  /\ sortI >= regEp - regSp + 1
  /\ pc' = "sorted"
  /\ UNCHANGED <<sortI, sortJ, regSp, regEp, regionBuffers, sortKept>>

\* lines 668-672: one iteration of for (size_t j = i; j >= 1; j--)
SortInnerStep ==
  /\ pc = "sortinner"
  /\ sortJ >= 1
  /\ regionSortIndices' =
       IF SortLess(regionCurvature, regSp, regionSortIndices[sortJ],
                   regionSortIndices[sortJ - 1])
       THEN SwapAt(regionSortIndices, sortJ)
       ELSE regionSortIndices
  /\ sortJ' = sortJ - 1
  /\ UNCHANGED <<pc, sortI, regSp, regEp, regionCurvature, regionLabel, sortKept>>

\* line 668: j has reached 0; i++
SortInnerExit ==
  /\ pc = "sortinner"
  /\ sortJ < 1
  /\ sortI' = sortI + 1
  /\ pc' = "sortouter"
  /\ UNCHANGED <<sortJ, regSp, regEp, regionBuffers, sortKept>>

NextSort ==
  \/ SortBuffers
  \/ SortOuterEnter
  \/ SortOuterExit
  \/ SortInnerStep
  \/ SortInnerExit

\* the loops are run by one thread that is never suspended for ever
SpecSort == InitSort /\ [][NextSort]_vars /\ WF_vars(NextSort)

\* position q of the sort indices comes before position r in the order
\* ascending curvature, then ascending cloud index
InOrder(q, r) ==
  LET a == regionSortIndices[q]
      b == regionSortIndices[r]
  IN  \/ regionCurvature[a - regSp] < regionCurvature[b - regSp]
      \/ regionCurvature[a - regSp] = regionCurvature[b - regSp] /\ a < b

SortedStable ==
  /\ DOMAIN regionSortIndices = 0 .. regEp - regSp
  /\ {regionSortIndices[q] : q \in DOMAIN regionSortIndices} = regSp .. regEp
  /\ \A q, r \in DOMAIN regionSortIndices : q < r => InOrder(q, r)

\* C21: setRegionBuffersFor always finishes, and then _regionSortIndices is a
\* permutation of startIdx .. endIdx in ascending curvature, points of equal
\* curvature in ascending index order; it is the value the operator
\* setRegionBuffersFor gives.
C21_SortedStable ==
  /\ [](pc = "sorted" =>
          /\ SortedStable
          /\ regionSortIndices =
               setRegionBuffersFor(laserCloud, regSp, regEp,
                                   params.curvatureRegion).sortIndices)
  /\ <>(pc = "sorted")

\* C21 witness: a region of at least three points has been sorted, two of
\* its points have equal curvature and the order is not the index order.
C21_Witness ==
  /\ pc = "sorted"
  /\ regEp - regSp + 1 >= 3
  /\ \E a, b \in regSp .. regEp :
       a # b /\ regionCurvature[a - regSp] = regionCurvature[b - regSp]
  /\ \E q \in DOMAIN regionSortIndices : regionSortIndices[q] # regSp + q

(***************************************************************************)
(* Specification SpecRings: extractFeatures() and publishResult() on a     *)
(* cloud of four rings as process() leaves it: two points, then MinScan .. *)
(* MaxRingScan points, then an empty ring, then two points.  The ring in   *)
(* the middle has points of other rings on both sides of it in _laserCloud.*)
(***************************************************************************)
MaxRingScan == 8

\* the points of the ring in the middle (ring 1) and of its neighbours
RingUniverse == {FeatPt(0, 10, 1), FeatPt(6, 10, 1)}
SideRing(r) == <<FeatPt(0, 10, r), FeatPt(2, 10, r)>>

\* curvatureRegion and nFeatureRegions
RingCases == {1, 2} \X {1, 2, 3}

InitRings ==
  /\ IdleRing
  /\ IdlePose
  /\ IdleSetup
  /\ IdleSort
  /\ IdleMsg
  /\ IdleImu
  /\ IdleFeat
  /\ pc = "scan"
  /\ laserCloudIn = <<>>
  /\ scanMapper = [lowerBound |-> -15, upperBound |-> 15, nScanRings |-> 4]
  /\ \E n \in MinScan .. MaxRingScan, q \in RingCases :
       /\ params = [DefaultParams EXCEPT !.curvatureRegion = q[1],
                                         !.nFeatureRegions = q[2]]
       /\ \E mid \in [1 .. n -> RingUniverse] :
            laserCloud = SideRing(0) \o mid \o SideRing(3)
       /\ scanIndices = <<RingRange(0, 2), RingRange(2, 2 + n),
                          RingRange(2 + n, 2 + n), RingRange(2 + n, 4 + n)>>
       /\ cloudSize = n + 4
  /\ startOri = 0
  /\ endOri = 8
  /\ halfPassed = FALSE
  /\ ptIdx = 0
  /\ laserCloudScans = <<>>
  /\ oobRead = FALSE
  /\ scanTime = 0
  /\ sweepStart = 0

NextRings == ExtractFeatures \/ PublishResult

SpecRings == InitRings /\ [][NextRings]_vars

\* the indices of the current scan into _laserCloud, _scanNeighborPicked and
\* the region buffers
ScanRange == ScanStartIdx .. ScanEndIdx
PickedRange == 0 .. ScanEndIdx - ScanStartIdx
RegionRange == 0 .. regEp - regSp

\* _laserCloud indices read by setScanBuffersFor (lines 687-689)
ScanBufferReads(startIdx, endIdx, cr) ==
  UNION {{i - 1, i, i + 1} : i \in startIdx + cr .. endIdx - cr - 1}

\* _scanNeighborPicked indices setScanBuffersFor can write (lines 701, 709, 718)
ScanBufferWrites(startIdx, endIdx, cr) ==
  UNION {i - startIdx - cr .. i - startIdx + cr + 1 :
           i \in startIdx + cr .. endIdx - cr - 1}

\* _laserCloud indices read by setRegionBuffersFor (lines 652-660)
RegionBufferReads(startIdx, endIdx, cr) ==
  UNION {i - cr .. i + cr : i \in startIdx .. endIdx}

\* _laserCloud indices markAsPicked can read, and with scanIdx for cloudIdx
\* the _scanNeighborPicked indices it can write (lines 728-744)
MarkAsPickedIdxs(cloudIdx, cr) == cloudIdx - cr .. cloudIdx + cr

\* the indices one iteration of the corner or flat loop uses, k being the
\* position in _regionSortIndices (lines 580-582 and 603-605)
LoopIndicesInRange(k) ==
  /\ k \in DOMAIN regionSortIndices
  /\ k \in RegionRange
  /\ LET idx == regionSortIndices[k]
     IN  /\ idx \in ScanRange
         /\ idx - ScanStartIdx \in PickedRange
         /\ idx - ScanStartIdx \in DOMAIN scanNeighborPicked
         /\ idx - regSp \in RegionRange
         /\ MarkAsPickedIdxs(idx, params.curvatureRegion) \subseteq ScanRange
         /\ MarkAsPickedIdxs(idx - ScanStartIdx, params.curvatureRegion)
              \subseteq PickedRange

\* C22: while a scan is worked on, every _laserCloud index setScanBuffersFor,
\* setRegionBuffersFor and markAsPicked use lies in the scan's own range
\* (no point of another ring is read), every _scanNeighborPicked index lies
\* in [0, scanSize) and every region buffer index in [0, regionSize).
C22_IndicesInRange ==
  /\ pc \in {"region", "corner", "flat", "lessflat"} =>
       /\ ScanBufferReads(ScanStartIdx, ScanEndIdx, params.curvatureRegion)
            \subseteq ScanRange
       /\ ScanBufferWrites(ScanStartIdx, ScanEndIdx, params.curvatureRegion)
            \subseteq PickedRange
       /\ DOMAIN scanNeighborPicked = PickedRange
  /\ pc \in {"corner", "flat", "lessflat"} =>
       /\ RegionBufferReads(regSp, regEp, params.curvatureRegion) \subseteq ScanRange
       /\ DOMAIN regionCurvature = RegionRange
       /\ DOMAIN regionSortIndices = RegionRange
       /\ DOMAIN regionLabel = RegionRange
  /\ pc = "corner" /\ CornerLoopCond(loopK, largestPickedNum, params.maxCornerLessSharp)
       => LoopIndicesInRange(loopK - 1)
  /\ pc = "flat" /\ FlatLoopCond(loopK, regEp - regSp + 1, smallestPickedNum,
                                 params.maxSurfaceFlat)
       => LoopIndicesInRange(loopK)

\* C22 witness: in the ring between two others, with curvatureRegion 2, the
\* first point of a region is about to be handled by the flat loop after
\* the corner loop picked the region's last point: the indices markAsPicked
\* can use reach back to the first point of the scan and no further.
C22_Witness ==
  /\ pc = "flat"
  /\ scanI = 1
  /\ params.curvatureRegion = 2
  /\ ScanStartIdx = 2
  /\ regSp = ScanStartIdx + 2
  /\ FlatLoopCond(loopK, regEp - regSp + 1, smallestPickedNum, params.maxSurfaceFlat)
  /\ regionSortIndices[loopK] = regSp
  /\ \E q \in 1 .. Len(pickLog) : pickLog[q].idx = regEp

\* s is t with some elements left out
RECURSIVE IsSubSeq(_, _)
IsSubSeq(s, t) ==
  IF s = <<>> THEN TRUE
  ELSE IF t = <<>> THEN FALSE
  ELSE IF Head(s) = Head(t) THEN IsSubSeq(Tail(s), Tail(t))
  ELSE IsSubSeq(s, Tail(t))

\* the step picks a corner: the pick log grows by a corner entry
CornerPicked ==
  /\ Len(pickLog') = Len(pickLog) + 1
  /\ pickLog'[Len(pickLog')].label \in {CORNER_SHARP, CORNER_LESS_SHARP}

\* C23: the sharp corner cloud is contained in the less sharp corner cloud
\* (its points appear there in the same order), so it is never the larger of
\* the two, and every corner pick, sharp or less sharp, appends the picked
\* point to the less sharp cloud.
C23_SharpInLessSharp ==
  /\ [](/\ IsSubSeq(cornerPointsSharp, cornerPointsLessSharp)
        /\ Len(cornerPointsSharp) <= Len(cornerPointsLessSharp))
  /\ [][CornerPicked =>
          cornerPointsLessSharp' =
            Append(cornerPointsLessSharp,
                   At(laserCloud, pickLog'[Len(pickLog')].idx))]_vars

\* both kinds of corner have been picked: the less sharp cloud holds a sharp
\* and a less sharp point
C23_Witness ==
  /\ Len(cornerPointsSharp) >= 1
  /\ Len(cornerPointsLessSharp) > Len(cornerPointsSharp)
  /\ \E q \in DOMAIN pickLog : pickLog[q].label = CORNER_LESS_SHARP

(***************************************************************************)
(* Specification SpecCloudMsg: a newly constructed MultiScanRegistration   *)
(* (16-ring mapper, 1 or 6 feature regions, no IMU data) receives          *)
(* SYSTEM_DELAY + MaxProcessed cloud messages, each being empty or one of  *)
(* LongSweeps.  The callbacks of the node run one after the other, so a    *)
(* message is handled only when process() is not running.                  *)
(***************************************************************************)
\* the value of SYSTEM_DELAY is declared outside the given sources
SYSTEM_DELAY == 2
MaxProcessed == 2

\* the clouds a message can carry
MsgClouds == {<<>>} \cup LongSweeps

\* lines 73-80: the constructor, followed by a setup() that keeps the default
\* parameters or sets the number of feature regions
InitCloudMsg ==
  /\ IdleRing
  /\ IdlePose
  /\ IdleSetup
  /\ IdleSort
  /\ IdleImu
  /\ pc = "idle"
  /\ laserCloudIn = <<>>
  /\ scanMapper = VLP16
  /\ params \in {[DefaultParams EXCEPT !.nFeatureRegions = n] :
                    n \in FeatureRegionCounts}
  /\ cloudSize = 0
  /\ startOri = 0
  /\ endOri = 0
  /\ halfPassed = FALSE
  /\ ptIdx = 0
  /\ laserCloudScans = <<>>
  /\ laserCloud = <<>>
  /\ scanIndices = <<>>
  /\ oobRead = FALSE
  /\ scanTime = 0
  /\ sweepStart = 0
  /\ IdleFeat
  /\ systemDelay = SYSTEM_DELAY
  /\ msgsReceived = 0

\* the handler is not running
HandlerIdle == pc \in {"idle", "done"}

msgKept == <<ringVars, imuVars, featVars, poseVars, setupVars, sortVars>>

\* lines 140-143: the message is discarded
HandleCloudMessageDiscard ==
  /\ HandlerIdle
  /\ msgsReceived < SYSTEM_DELAY + MaxProcessed
  /\ systemDelay > 0
  /\ systemDelay' = systemDelay - 1
  /\ msgsReceived' = msgsReceived + 1
  /\ UNCHANGED <<procVars, msgKept>>

\* lines 145-149: the cloud of the message is converted and handed to
\* process() with the stamp of the message
HandleCloudMessageProcess ==
  /\ HandlerIdle
  /\ msgsReceived < SYSTEM_DELAY + MaxProcessed
  /\ ~(systemDelay > 0)
  /\ \E cloud \in MsgClouds : laserCloudIn' = cloud
  /\ scanTime' = (msgsReceived + 1) * 100
  /\ pc' = "reset"
  /\ msgsReceived' = msgsReceived + 1
  /\ UNCHANGED <<scanMapper, params, cloudSize, startOri, endOri, halfPassed,
                 ptIdx, laserCloudScans, laserCloud, scanIndices, oobRead,
                 sweepStart, systemDelay, msgKept>>

NextCloudMsg ==
  \/ HandleCloudMessageDiscard
  \/ HandleCloudMessageProcess
  \/ ProcessReset
  \/ ProcessOrient
  \/ ProcessOrientEmptyFault
  \/ ProcessOrientEmptyGarbage
  \/ ProcessPoint
  \/ ProcessBuild
  \/ ExtractFeatures
  \/ PublishResult

SpecCloudMsg == InitCloudMsg /\ [][NextCloudMsg]_vars

\* a cloud message is handled in this step
MessageHandled == msgsReceived' = msgsReceived + 1

\* the handler has returned from every message it was given
HandlerReturned == pc = "done"

\* the delay counter stays within 0 .. SYSTEM_DELAY and never grows; the first
\* SYSTEM_DELAY messages only decrement it, every later message is handed to
\* process()
C24_Gate ==
  /\ [](systemDelay \in 0 .. SYSTEM_DELAY)
  /\ [][systemDelay' <= systemDelay]_vars
  /\ [][MessageHandled =>
          IF msgsReceived < SYSTEM_DELAY
          THEN /\ systemDelay' = systemDelay - 1
               /\ UNCHANGED <<procVars, msgKept>>
          ELSE /\ systemDelay' = systemDelay
               /\ pc' = "reset"
               /\ laserCloudIn' \in MsgClouds]_vars

\* C24 (as stated): handleCloudMessage discards exactly the first
\* SYSTEM_DELAY cloud messages, each of them only decrementing _systemDelay
\* and changing no other state; every later message is processed (reset,
\* feature extraction, publication: process() does not stop before, and when
\* the handler has returned one sweep is published per later message);
\* _systemDelay never drops below 0 and never increases.
C24_AsStated ==
  /\ C24_Gate
  /\ [](pc # "crashed")
  /\ [](HandlerReturned =>
          /\ msgsReceived >= SYSTEM_DELAY
          /\ Len(published) = msgsReceived - SYSTEM_DELAY)

(***************************************************************************)
(* Specification SpecIMU: reset() and then interpolateIMUStateFor calls on *)
(* every time-sorted IMU history of at most MaxImu samples.                *)
(***************************************************************************)
MaxImu == 3
MaxCalls == 3

\* sample stamps, scan times and relative times, in milliseconds
ImuStamps == {0, 40, 80}
ScanTimes == {0, 40}
RelTimes == {0, 20, 60, 100}

\* the histories: stamps strictly increasing, as handleIMUMessage receives them
ImuSample(stamp, n) == [stamp |-> stamp, yaw |-> n]
SortedStamps(n) ==
  {st \in [1 .. n -> ImuStamps] : \A q \in 1 .. n - 1 : st[q] < st[q + 1]}
ImuHistories ==
  UNION {{[q \in 1 .. n |-> ImuSample(st[q], q)] : st \in SortedStamps(n)} :
           n \in 1 .. MaxImu}

InitIMU ==
  /\ IdleRing
  /\ IdlePose
  /\ IdleSetup
  /\ IdleSort
  /\ IdleMsg
  /\ IdleProcRest
  /\ IdleFeatRest
  /\ \E stale \in BOOLEAN :
       LET left == IF stale THEN <<StalePoint>> ELSE <<>>
       IN  /\ laserCloud = left
           /\ cornerPointsSharp = left
           /\ cornerPointsLessSharp = left
           /\ surfacePointsFlat = left
           /\ surfacePointsLessFlat = left
           /\ scanIndices = IF stale THEN <<<<0, 0>>>> ELSE <<>>
  /\ pcImu = "reset"
  /\ imuHistory \in ImuHistories
  /\ imuIdx = 0
  /\ imuStart = NoImuState
  /\ imuCur = NoImuState
  /\ relTimeIn = 0
  /\ imuCalls = 0
  /\ newSweepIn = TRUE
  /\ scanTimeIn = 0

\* reset(scanTime, newSweep), lines 468-493: at the first scan of a sweep and
\* at every later scan; scan times do not go back
ImuReset ==
  /\ pcImu \in {"reset", "sweep"}
  /\ \E t \in ScanTimes, newSweep \in BOOLEAN : t >= scanTime /\ Reset(t, newSweep)
  /\ pcImu' = "sweep"
  /\ imuCalls' = 0
  /\ UNCHANGED <<pc, cloudSize, resetKept, imuHistory, imuCur, relTimeIn>>

\* interpolateIMUStateFor(relTime, _imuCur), called by setIMUTransformFor
InterpolateCall ==
  /\ pcImu = "sweep"
  /\ imuCalls < MaxCalls
  /\ \E relTime \in RelTimes :
       LET r == interpolateIMUStateFor(imuHistory, imuIdx, scanTime, relTime)
       IN  /\ imuIdx' = r.imuIdx
           /\ imuCur' = r.outputState
           /\ relTimeIn' = relTime
  /\ imuCalls' = imuCalls + 1
  /\ UNCHANGED <<pcImu, imuHistory, imuStart, newSweepIn, scanTimeIn, ringVars, otherVars,
                 procVars, featVars>>

NextIMU == ImuReset \/ InterpolateCall

SpecIMU == InitIMU /\ [][NextIMU]_vars

\* the samples next to the target time t: the last at or before it and the
\* first at or after it
StampsOf(history) == {history[q].stamp : q \in DOMAIN history}
Brackets(history, t, out) ==
  /\ out.kind = "interpolate"
  /\ \E q \in 1 .. Len(history) - 1 :
       /\ {out.start, out.end} = {history[q], history[q + 1]}
       /\ history[q].stamp <= t
       /\ t <= history[q + 1].stamp
  /\ out.ratio.den > 0
  /\ 0 <= out.ratio.num
  /\ out.ratio.num <= out.ratio.den

\* out is the sample smp, copied or interpolated with the ratio that selects it
IsSample(out, smp) ==
  \/ out.kind = "sample" /\ out.sample = smp
  \/ /\ out.kind = "interpolate"
     /\ out.ratio.den > 0
     /\ \/ out.ratio.num = 0 /\ out.start = smp
        \/ out.ratio.num = out.ratio.den /\ out.end = smp

NoExtrapolation(history, t, out) ==
  IF t < history[1].stamp THEN IsSample(out, history[1])
  ELSE IF t > history[Len(history)].stamp THEN IsSample(out, history[Len(history)])
  ELSE IF t \in StampsOf(history)
       THEN \E q \in DOMAIN history : history[q].stamp = t /\ IsSample(out, history[q])
       ELSE Brackets(history, t, out)

\* C10: for a time-sorted, non-empty IMU history and any sequence of
\* interpolateIMUStateFor calls within a sweep, the state written is the endpoint
\* sample for a target time outside the history, the sample itself for a target
\* time equal to a stamp, and otherwise the interpolation of the two bracketing
\* samples with a ratio in [0,1].
C10_NeverExtrapolates ==
  (pcImu = "sweep" /\ imuCalls > 0) =>
    NoExtrapolation(imuHistory, scanTime + relTimeIn, imuCur)

\* the step is a call of reset: the only steps of SpecIMU that do not count
\* an interpolateIMUStateFor call
ResetCall == imuCalls' # imuCalls + 1
sweepClouds == <<laserCloud, cornerPointsSharp, cornerPointsLessSharp,
                 surfacePointsFlat, surfacePointsLessFlat, scanIndices>>

\* C14: reset(scanTime, newSweep = true) empties _laserCloud, the four feature
\* clouds and _scanIndices and sets _sweepStart to scanTime;
\* reset(scanTime, newSweep = false) leaves all of them unchanged; both set
\* _scanTime to scanTime.
C14_ResetFrame ==
  [][ResetCall =>
       /\ scanTime' = scanTimeIn'
       /\ IF newSweepIn'
          THEN /\ sweepClouds' = <<<<>>, <<>>, <<>>, <<>>, <<>>, <<>>>>
               /\ sweepStart' = scanTimeIn'
          ELSE /\ sweepClouds' = sweepClouds
               /\ sweepStart' = sweepStart]_vars

\* C14 witness: a reset with newSweep = false at scan time 40 ms has kept the
\* clouds of the sweep that began at 0.
C14_Witness ==
  /\ pcImu = "sweep"
  /\ ~newSweepIn
  /\ scanTime = 40
  /\ sweepStart = 0
  /\ laserCloud = <<StalePoint>>
  /\ surfacePointsLessFlat = <<StalePoint>>
  /\ scanIndices = <<<<0, 0>>>>

\* the step is a call of reset
IsResetStep == \E t \in ScanTimes, newSweep \in BOOLEAN : Reset(t, newSweep)

\* C11 (as stated): _imuIdx stays below the history size, and it decreases
\* only in a reset with newSweep = true: across the interpolateIMUStateFor and
\* reset calls of one sweep it never rewinds.
C11_AsStated ==
  [][/\ imuIdx' < Len(imuHistory')
     /\ imuIdx' < imuIdx => (IsResetStep /\ newSweepIn')]_vars

(***************************************************************************)
(* Specification SpecImuMsg: handleIMUMessage on every sequence of         *)
(* messages 50 or 100 ms apart, over 50 * MaxPushes ms, into a history of  *)
(* capacity ImuCapacity.                                                   *)
(***************************************************************************)
MaxPushes == 3
ImuCapacity == 2

\* message contents: time between messages (ms), orientation in quarter turns
\* (roll, pitch, yaw), linear acceleration (cm/s^2, lidar axes)
ImuDts == {50, 100}
ImuOrientations == {<<0, 0, 0>>, <<1, 0, 0>>, <<0, 0, 1>>}
ImuLinAccs == {Vec(0, 0, 981), Vec(100, 0, 981), Vec(0, 100, 0)}
ImuMsg(stamp, o, lin) ==
  [stamp |-> stamp, roll |-> o[1], pitch |-> o[2], yaw |-> o[3], lin |-> lin]

InitImuMsg ==
  /\ IdleRing
  /\ IdlePose
  /\ IdleSetup
  /\ IdleSort
  /\ IdleMsg
  /\ IdleProc
  /\ IdleFeat
  /\ IdleImu

HandleIMUMessage ==
  /\ pcImu = "idle"
  /\ \E dt \in ImuDts, o \in ImuOrientations, lin \in ImuLinAccs :
       LET stamp == IF imuHistory = <<>> THEN 0
                    ELSE imuHistory[Len(imuHistory)].stamp + dt
       IN  /\ stamp <= 50 * MaxPushes
           /\ imuHistory' = CircularPush(imuHistory,
                                         NewImuState(imuHistory, ImuMsg(stamp, o, lin)),
                                         ImuCapacity)
  /\ UNCHANGED <<pcImu, imuIdx, imuStart, imuCur, relTimeIn, imuCalls, newSweepIn,
                 scanTimeIn, ringVars, otherVars, procVars, featVars>>

NextImuMsg == HandleIMUMessage

SpecImuMsg == InitImuMsg /\ [][NextImuMsg]_vars

\* the step pushes a sample: the new history ends with a sample the old one
\* does not end with
LastOf(history) == history[Len(history)]
PushStep == imuHistory' # imuHistory

\* C12: the first sample pushed into an empty history has zero velocity and
\* position; every later sample has velocity = prev.velocity + a * dt and
\* position = prev.position + prev.velocity * dt + 0.5 * a * dt * dt, with prev
\* the sample pushed before it, dt the difference of their stamps and a the
\* sample's gravity-compensated acceleration rotated by its own orientation.
C12_Kinematics ==
  [][PushStep =>
       LET new == LastOf(imuHistory')
       IN  IF imuHistory = <<>>
           THEN new.velocity = ZeroVec /\ new.position = ZeroVec
           ELSE LET prev == LastOf(imuHistory)
                    dt == new.stamp - prev.stamp
                    a == rotateZXY(new.acceleration, new.roll, new.pitch, new.yaw)
                IN  /\ new.velocity.x = prev.velocity.x + a.x * dt
                    /\ new.velocity.y = prev.velocity.y + a.y * dt
                    /\ new.velocity.z = prev.velocity.z + a.z * dt
                    /\ new.position.x
                         = prev.position.x + 2 * prev.velocity.x * dt + a.x * dt * dt
                    /\ new.position.y
                         = prev.position.y + 2 * prev.velocity.y * dt + a.y * dt * dt
                    /\ new.position.z
                         = prev.position.z + 2 * prev.velocity.z * dt + a.z * dt * dt]_vars

\* C12 witness: two samples 0.1 s apart, the second with a = (0, 0, 1) m/s^2,
\* give velocity (0, 0, 0.1) m/s and position (0, 0, 0.005) m.
C12_Witness ==
  /\ Len(imuHistory) = 2
  /\ imuHistory[1].stamp = 0
  /\ imuHistory[1].velocity = ZeroVec
  /\ imuHistory[1].position = ZeroVec
  /\ imuHistory[2].stamp = 100
  /\ imuHistory[2].acceleration = Vec(0, 0, 100)
  /\ imuHistory[2].velocity = Vec(0, 0, 10000)
  /\ imuHistory[2].position = Vec(0, 0, 1000000)

(***************************************************************************)
(* Specification SpecPose: TransformMaintenance.  The three mutators run   *)
(* under main_thread_mutex_ and write a pose one component at a time (the  *)
(* poses are float[6]); a reader takes the pointer getIntegratedTransform()*)
(* returns and copies the six components.  A component holds the number of *)
(* the update that wrote it, so two components of one pose are equal       *)
(* exactly when the same update wrote them.                                *)
(***************************************************************************)
MaxUpdates == 2

\* the mutators that write the fused pose _transformMapped:
\* processOdometryTransform (through transformAssociateToMap) and
\* correctEstimate, which folds the external correction into it
FusedWriters == {"processOdometryTransform", "correctEstimate"}

\* the mutator that replaces the snapshot / correction pair
SnapshotWriter == "processMappingTransform"

InitPose ==
  /\ IdleRing
  /\ IdleProc
  /\ IdleFeat
  /\ IdleImu
  /\ IdleSetup
  /\ IdleSort
  /\ IdleMsg
  /\ IdlePose

\* std::lock_guard on main_thread_mutex_ at the start of a mutator
WriterLock ==
  /\ mainThreadMutex = "free"
  /\ poseUpdates < MaxUpdates
  /\ mainThreadMutex' \in FusedWriters \cup {SnapshotWriter}
  /\ poseUpdates' = poseUpdates + 1
  /\ writeIdx' = 0
  /\ UNCHANGED <<transformMapped, transformBefMapped, transformAftMapped, pcReader,
                 poseRead, ringVars, procVars, featVars, imuVars, setupVars, sortVars, msgVars>>

\* one assignment _transformMapped[i] = ... of the holder
WriteMapped ==
  /\ mainThreadMutex \in FusedWriters
  /\ writeIdx < 6
  /\ transformMapped' = [transformMapped EXCEPT ![writeIdx + 1] = poseUpdates]
  /\ writeIdx' = writeIdx + 1
  /\ UNCHANGED <<transformBefMapped, transformAftMapped, mainThreadMutex, poseUpdates,
                 pcReader, poseRead, ringVars, procVars, featVars, imuVars, setupVars, sortVars, msgVars>>

\* one assignment _transformAftMapped[i] = ... or _transformBefMapped[i] = ...
WriteSnapshot ==
  /\ mainThreadMutex = SnapshotWriter
  /\ writeIdx < 12
  /\ IF writeIdx < 6
     THEN /\ transformAftMapped' = [transformAftMapped EXCEPT ![writeIdx + 1] = poseUpdates]
          /\ UNCHANGED transformBefMapped
     ELSE /\ transformBefMapped' = [transformBefMapped EXCEPT ![writeIdx - 5] = poseUpdates]
          /\ UNCHANGED transformAftMapped
  /\ writeIdx' = writeIdx + 1
  /\ UNCHANGED <<transformMapped, mainThreadMutex, poseUpdates, pcReader, poseRead,
                 ringVars, procVars, featVars, imuVars, setupVars, sortVars, msgVars>>

\* the lock_guard goes out of scope when the mutator returns
WriterUnlock ==
  /\ mainThreadMutex # "free"
  /\ writeIdx = (IF mainThreadMutex = SnapshotWriter THEN 12 ELSE 6)
  /\ mainThreadMutex' = "free"
  /\ UNCHANGED <<transformMapped, transformBefMapped, transformAftMapped, writeIdx,
                 poseUpdates, pcReader, poseRead, ringVars, procVars, featVars,
                 imuVars, setupVars, sortVars, msgVars>>

\* float* getIntegratedTransform() { return _transformMapped; }: the reader is
\* handed the array itself and main_thread_mutex_ is not taken
getIntegratedTransform ==
  /\ pcReader \in {"idle", "done"}
  /\ pcReader' = "reading"
  /\ poseRead' = <<>>
  /\ UNCHANGED <<transformMapped, transformBefMapped, transformAftMapped,
                 mainThreadMutex, writeIdx, poseUpdates, ringVars, procVars,
                 featVars, imuVars, setupVars, sortVars, msgVars>>

\* the reader copies the next component through the pointer
ReadComponent ==
  /\ pcReader = "reading"
  /\ poseRead' = Append(poseRead, transformMapped[Len(poseRead) + 1])
  /\ pcReader' = IF Len(poseRead) = 5 THEN "done" ELSE "reading"
  /\ UNCHANGED <<transformMapped, transformBefMapped, transformAftMapped,
                 mainThreadMutex, writeIdx, poseUpdates, ringVars, procVars,
                 featVars, imuVars, setupVars, sortVars, msgVars>>

NextPose ==
  \/ WriterLock
  \/ WriteMapped
  \/ WriteSnapshot
  \/ WriterUnlock
  \/ getIntegratedTransform
  \/ ReadComponent

SpecPose == InitPose /\ [][NextPose]_vars

\* C15 (as stated): a pose read through getIntegratedTransform() while the
\* mutators run is never partially written: its six components were all
\* written by the same update.
C15_AsStated ==
  pcReader = "done" => \A i \in 1 .. 6 : poseRead[i] = poseRead[1]

(***************************************************************************)
(* Specification SpecSetup: MultiScanRegistration::setup, which first runs *)
(* ScanRegistration::setup, on a bounded set of parameter servers.  A      *)
(* parameter is <<>> when it is not set (getParam returns false) and <<v>> *)
(* when it is set to v.  Units are those of params: scan_period in ms,     *)
(* surface_curvature_threshold in dm^2, less_flat_filter_size in dm.       *)
(***************************************************************************)
\* node.getParam(name, value) returned true
Got(in) == in # <<>>

\* the tests that send a parameter to ROS_ERROR
BadScanPeriod(in) == Got(in) /\ in[1] <= 0                   \* fParam <= 0
BadCount(in) == Got(in) /\ in[1] < 1                         \* iParam < 1
BadLessSharp(in, prm) == Got(in) /\ in[1] < prm.maxCornerSharp
BadThreshold(in) == Got(in) /\ 1000 * in[1] < 100            \* fParam < 0.001
BadFilterSize(in) == Got(in) /\ 1000 * in[1] < 10            \* fParam < 0.001

\* if (getParam) { if (bad) ROS_ERROR(...); else _params.field = value; }
SetField(prm, field, in, bad) ==
  IF Got(in) /\ ~bad THEN [prm EXCEPT ![field] = in[1]] ELSE prm

\* lines 368-375: an accepted max_corner_sharp sets both corner quotas
SetMaxCornerSharpOnly(prm, in) ==
  SetField(prm, "maxCornerSharp", in, BadCount(in))
SetMaxCornerSharp(prm, in) ==
  IF Got(in) /\ ~BadCount(in)
  THEN [prm EXCEPT !.maxCornerSharp = in[1], !.maxCornerLessSharp = 10 * in[1]]
  ELSE prm

\* _params after the nine blocks of ScanRegistration::setup, in their order
BaseParams(prm, np) ==
  LET p1 == SetField(prm, "scanPeriod", np.scan_period, BadScanPeriod(np.scan_period))
      p2 == SetField(p1, "imuHistorySize", np.imu_history_size,
                     BadCount(np.imu_history_size))
      p3 == SetField(p2, "nFeatureRegions", np.n_feature_regions,
                     BadCount(np.n_feature_regions))
      p4 == SetField(p3, "curvatureRegion", np.curvature_region,
                     BadCount(np.curvature_region))
      p5 == SetMaxCornerSharp(p4, np.max_corner_sharp)
      p6 == SetField(p5, "maxCornerLessSharp", np.max_corner_less_sharp,
                     BadLessSharp(np.max_corner_less_sharp, p5))
      p7 == SetField(p6, "maxSurfaceFlat", np.max_surface_flat,
                     BadCount(np.max_surface_flat))
      p8 == SetField(p7, "surfaceCurvatureThreshold", np.surface_curvature_threshold,
                     BadThreshold(np.surface_curvature_threshold))
  IN  SetField(p8, "lessFlatFilterSize", np.less_flat_filter_size,
               BadFilterSize(np.less_flat_filter_size))

\* the parameters ScanRegistration::setup calls ROS_ERROR for
BaseErrors(prm, np) ==
  {n \in {"scan_period"} : BadScanPeriod(np.scan_period)}
    \cup {n \in {"imu_history_size", "n_feature_regions", "curvature_region",
                 "max_corner_sharp", "max_surface_flat"} : BadCount(np[n])}
    \cup {n \in {"max_corner_less_sharp"} :
            BadLessSharp(np.max_corner_less_sharp,
                         SetMaxCornerSharp(prm, np.max_corner_sharp))}
    \cup {n \in {"surface_curvature_threshold"} :
            BadThreshold(np.surface_curvature_threshold)}
    \cup {n \in {"less_flat_filter_size"} : BadFilterSize(np.less_flat_filter_size)}

\* ScanRegistration::setup: the nine parameters, then the IMU subscription;
\* it returns true on every path
ScanRegistrationSetup ==
  /\ pcSetup = "base"
  /\ params' = BaseParams(params, nodeParams)
  /\ errorsReported' = errorsReported \cup BaseErrors(params, nodeParams)
  /\ subscribed' = subscribed \cup {"/imu/data"}
  /\ pcSetup' = "mapper"
  /\ UNCHANGED <<nodeParams, paramsBefore, mapperBefore, setupReturn, pc,
                 laserCloudIn, scanMapper, cloudSize, startOri, endOri, halfPassed,
                 ptIdx, laserCloudScans, laserCloud, scanIndices, oobRead, scanTime,
                 sweepStart, ringVars, featVars, imuVars, poseVars, sortVars, msgVars>>

\* what the mapper steps of MultiScanRegistration::setup leave alone
mapperKept == <<nodeParams, paramsBefore, mapperBefore, pc, laserCloudIn, cloudSize,
                startOri, endOri, halfPassed, ptIdx, laserCloudScans, laserCloud,
                scanIndices, oobRead, scanTime, sweepStart, ringVars, featVars,
                imuVars, poseVars, sortVars, msgVars>>

\* the lidar models of lines 98-103 that the model's servers use
KnownModels == {"VLP-16"}

\* lines 97-108: lidar_model is set; getParam stores it in _params.lidarModel
MapperFromModel ==
  /\ pcSetup = "mapper"
  /\ Got(nodeParams.lidar_model)
  /\ params' = [params EXCEPT !.lidarModel = nodeParams.lidar_model[1]]
  /\ IF nodeParams.lidar_model[1] \in KnownModels
     THEN /\ scanMapper' = VLP16
          /\ pcSetup' = "subscribe"
          /\ UNCHANGED <<errorsReported, setupReturn>>
     ELSE /\ errorsReported' = errorsReported \cup {"lidar_model"}
          /\ setupReturn' = "false"
          /\ pcSetup' = "done"
          /\ UNCHANGED scanMapper
  /\ UNCHANGED <<subscribed, mapperKept>>

\* line 110-112: the three parameters of a linear mapper are all set
GotLinear(np) ==
  Got(np.min_vertical_angle) /\ Got(np.max_vertical_angle) /\ Got(np.n_scan_rings)

\* lines 113 and 116: the tests that reject a linear mapper
LinearInvalidStrict(vAngleMin, vAngleMax, nScanRings) ==
  vAngleMin > vAngleMax \/ nScanRings < 2
LinearInvalid(vAngleMin, vAngleMax, nScanRings) ==
  vAngleMin >= vAngleMax \/ nScanRings < 2

\* lines 110-122: a linear mapper from the three parameters
MapperLinear ==
  /\ pcSetup = "mapper"
  /\ ~Got(nodeParams.lidar_model)
  /\ GotLinear(nodeParams)
  /\ LET vAngleMin == nodeParams.min_vertical_angle[1]
         vAngleMax == nodeParams.max_vertical_angle[1]
         nScanRings == nodeParams.n_scan_rings[1]
     IN  IF LinearInvalid(vAngleMin, vAngleMax, nScanRings)
         THEN /\ errorsReported' =
                   errorsReported \cup {IF vAngleMin >= vAngleMax
                                        THEN "vertical_range" ELSE "n_scan_rings"}
              /\ setupReturn' = "false"
              /\ pcSetup' = "done"
              /\ UNCHANGED scanMapper
         ELSE /\ scanMapper' = [lowerBound |-> vAngleMin, upperBound |-> vAngleMax,
                                nScanRings |-> nScanRings]
              /\ pcSetup' = "subscribe"
              /\ UNCHANGED <<errorsReported, setupReturn>>
  /\ UNCHANGED <<params, subscribed, mapperKept>>

\* lines 124-127: neither; two errors are logged and setup goes on
MapperDefault ==
  /\ pcSetup = "mapper"
  /\ ~Got(nodeParams.lidar_model)
  /\ ~GotLinear(nodeParams)
  /\ errorsReported' = errorsReported \cup {"scan_registration_parameters"}
  /\ pcSetup' = "subscribe"
  /\ UNCHANGED <<params, scanMapper, setupReturn, subscribed, mapperKept>>

\* lines 129-133: subscribe to the input cloud and return true
SetupSubscribe ==
  /\ pcSetup = "subscribe"
  /\ subscribed' = subscribed \cup {"/multi_scan_points"}
  /\ setupReturn' = "true"
  /\ pcSetup' = "done"
  /\ UNCHANGED <<params, scanMapper, errorsReported, mapperKept>>

\* a parameter that may be unset, or set to one of the values of S
Opt(S) == {<<>>} \cup {<<v>> : v \in S}

\* a parameter that is set to a value of S
Set1(S) == {<<v>> : v \in S}

\* the parameters of ScanRegistration::setup
BaseServers ==
  [scan_period : Opt({0, 50}),
   imu_history_size : Set1({0, 3}),
   n_feature_regions : Set1({0, 2}),
   curvature_region : Set1({0, 2}),
   max_corner_sharp : Opt({0, 3}),
   max_corner_less_sharp : Opt({0, 2, 40}),
   max_surface_flat : Set1({0, 2}),
   surface_curvature_threshold : Set1({0, 20}),
   less_flat_filter_size : Set1({0, 3})]

\* the parameters of MultiScanRegistration::setup
MapperServer(model, vAngleMin, vAngleMax, nScanRings) ==
  [lidar_model |-> model, min_vertical_angle |-> vAngleMin,
   max_vertical_angle |-> vAngleMax, n_scan_rings |-> nScanRings]

MapperServers ==
  { MapperServer(<<"VLP-16">>, <<>>, <<>>, <<>>),
    MapperServer(<<"HDL-128">>, <<>>, <<>>, <<>>),
    MapperServer(<<"HDL-128">>, <<-30>>, <<30>>, <<4>>),
    MapperServer(<<>>, <<-30>>, <<30>>, <<4>>),
    MapperServer(<<>>, <<10>>, <<10>>, <<4>>),
    MapperServer(<<>>, <<-30>>, <<30>>, <<1>>),
    MapperServer(<<>>, <<-30>>, <<>>, <<>>),
    MapperServer(<<>>, <<>>, <<>>, <<>>) }

InitSetup ==
  /\ IdleRing
  /\ IdleFeat
  /\ IdleImu
  /\ IdlePose
  /\ IdleSort
  /\ IdleMsg
  /\ pc = "idle"
  /\ laserCloudIn = <<>>
  /\ scanMapper = Linear3
  /\ params = DefaultParams
  /\ cloudSize = 0
  /\ startOri = 0
  /\ endOri = 0
  /\ halfPassed = FALSE
  /\ ptIdx = 0
  /\ laserCloudScans = <<>>
  /\ laserCloud = <<>>
  /\ scanIndices = <<>>
  /\ oobRead = FALSE
  /\ scanTime = 0
  /\ sweepStart = 0
  /\ pcSetup = "base"
  /\ nodeParams \in {b @@ s : b \in BaseServers, s \in MapperServers}
  /\ paramsBefore = params
  /\ mapperBefore = scanMapper
  /\ subscribed = {}
  /\ setupReturn = "none"
  /\ errorsReported = {}

NextSetup ==
  \/ ScanRegistrationSetup
  \/ MapperFromModel
  \/ MapperLinear
  \/ MapperDefault
  \/ SetupSubscribe

SpecSetup == InitSetup /\ [][NextSetup]_vars

\* ScanRegistration::setup has returned
BaseDone == pcSetup # "base"

\* the eight parameters whose test does not involve another field:
\* name, the field of _params it sets, whether its value is rejected
PlainParams ==
  { <<"scan_period", "scanPeriod", BadScanPeriod(nodeParams.scan_period)>>,
    <<"imu_history_size", "imuHistorySize", BadCount(nodeParams.imu_history_size)>>,
    <<"n_feature_regions", "nFeatureRegions", BadCount(nodeParams.n_feature_regions)>>,
    <<"curvature_region", "curvatureRegion", BadCount(nodeParams.curvature_region)>>,
    <<"max_corner_sharp", "maxCornerSharp", BadCount(nodeParams.max_corner_sharp)>>,
    <<"max_surface_flat", "maxSurfaceFlat", BadCount(nodeParams.max_surface_flat)>>,
    <<"surface_curvature_threshold", "surfaceCurvatureThreshold",
      BadThreshold(nodeParams.surface_curvature_threshold)>>,
    <<"less_flat_filter_size", "lessFlatFilterSize",
      BadFilterSize(nodeParams.less_flat_filter_size)>> }

\* an invalid value leaves the field as it was before setup, a valid one
\* replaces it
PlainParamsKeptOrSet ==
  \A q \in PlainParams :
    Got(nodeParams[q[1]]) =>
      IF q[3] THEN params[q[2]] = paramsBefore[q[2]] /\ q[1] \in errorsReported
      ELSE params[q[2]] = nodeParams[q[1]][1]

\* C16 (as stated): after setup, every invalid parameter has left its field
\* of _params at the value it had before setup, and every valid parameter has
\* replaced it; max_corner_less_sharp is invalid when it is below maxCornerSharp.
C16_AsStated ==
  BaseDone =>
    /\ PlainParamsKeptOrSet
    /\ LET in == nodeParams.max_corner_less_sharp
       IN  Got(in) =>
             IF in[1] < params.maxCornerSharp
             THEN params.maxCornerLessSharp = paramsBefore.maxCornerLessSharp
             ELSE params.maxCornerLessSharp = in[1]

\* C16 (amended): as stated for the eight other parameters; an accepted
\* max_corner_sharp also sets maxCornerLessSharp to ten times its value, and
\* that is the value an invalid or unset max_corner_less_sharp leaves in
\* place (the previous value only when max_corner_sharp was not accepted).
C16_KeptOrSet ==
  BaseDone =>
    /\ PlainParamsKeptOrSet
    /\ LET in == nodeParams.max_corner_less_sharp
           sharp == nodeParams.max_corner_sharp
           left == IF Got(sharp) /\ sharp[1] >= 1
                   THEN 10 * sharp[1] ELSE paramsBefore.maxCornerLessSharp
       IN  IF Got(in) /\ in[1] >= params.maxCornerSharp
           THEN params.maxCornerLessSharp = in[1]
           ELSE /\ params.maxCornerLessSharp = left
                /\ Got(in) => "max_corner_less_sharp" \in errorsReported

\* C16 witness: max_corner_sharp 3 was accepted and max_corner_less_sharp 2
\* rejected, and maxCornerLessSharp is 30, not the 2 it was before setup.
C16_Witness ==
  /\ BaseDone
  /\ nodeParams.max_corner_sharp = <<3>>
  /\ nodeParams.max_corner_less_sharp = <<2>>
  /\ "max_corner_less_sharp" \in errorsReported
  /\ paramsBefore.maxCornerLessSharp = 2
  /\ params.maxCornerLessSharp = 30
  /\ nodeParams.scan_period = <<0>>
  /\ params.scanPeriod = paramsBefore.scanPeriod

\* the configuration errors of MultiScanRegistration::setup
UnknownModel ==
  Got(nodeParams.lidar_model) /\ nodeParams.lidar_model[1] \notin {"VLP-16", "HDL-32", "HDL-64E"}
BadLinear ==
  /\ ~Got(nodeParams.lidar_model)
  /\ GotLinear(nodeParams)
  /\ \/ nodeParams.min_vertical_angle[1] >= nodeParams.max_vertical_angle[1]
     \/ nodeParams.n_scan_rings[1] < 2
NoMapperParams == ~Got(nodeParams.lidar_model) /\ ~GotLinear(nodeParams)
MapperErrors == {"lidar_model", "vertical_range", "n_scan_rings",
                 "scan_registration_parameters"}

\* C17 (as stated): whatever the configuration, setup subscribes to the input
\* cloud and returns true; on an unknown lidar_model, min_vertical_angle >=
\* max_vertical_angle or n_scan_rings < 2 it reports the error and keeps the
\* previous ring mapper.
C17_AsStated ==
  pcSetup = "done" =>
    /\ setupReturn = "true"
    /\ "/multi_scan_points" \in subscribed
    /\ UnknownModel \/ BadLinear =>
         scanMapper = mapperBefore /\ errorsReported \cap MapperErrors # {}

\* C17 (amended): on an unknown lidar_model, min_vertical_angle >=
\* max_vertical_angle or n_scan_rings < 2, setup reports the error, keeps the
\* previous ring mapper, does not subscribe to the input cloud and returns
\* false.  Only when neither lidar_model nor the three linear parameters are
\* set is the error non-fatal: it is reported, the mapper is kept, the input
\* cloud is subscribed to and setup returns true, as it does for a valid
\* configuration.
C17_FatalMapperErrors ==
  pcSetup = "done" =>
    IF UnknownModel \/ BadLinear
    THEN /\ setupReturn = "false"
         /\ "/multi_scan_points" \notin subscribed
         /\ scanMapper = mapperBefore
         /\ errorsReported \cap MapperErrors # {}
    ELSE /\ setupReturn = "true"
         /\ "/multi_scan_points" \in subscribed
         /\ IF NoMapperParams
            THEN /\ scanMapper = mapperBefore
                 /\ "scan_registration_parameters" \in errorsReported
            ELSE errorsReported \cap MapperErrors = {}

\* C17 witness: setup has returned false on min_vertical_angle =
\* max_vertical_angle without subscribing, the mapper unchanged.
C17_Witness ==
  /\ pcSetup = "done"
  /\ nodeParams.min_vertical_angle = <<10>>
  /\ nodeParams.max_vertical_angle = <<10>>
  /\ setupReturn = "false"
  /\ "/multi_scan_points" \notin subscribed
  /\ scanMapper = mapperBefore
  /\ "vertical_range" \in errorsReported

(***************************************************************************)
(* Specification SpecRing: getRingForAngle and the range test of process() *)
(* on every angle of a bounded grid.                                       *)
(***************************************************************************)
\* the grid: every quarter degree from -MaxAngleSteps/4 to +MaxAngleSteps/4
AngleStep == Deg(1) \div 4
MaxAngleSteps == 80

InitRing ==
  /\ pcRing = "in"
  /\ angleIn \in {k * AngleStep : k \in -MaxAngleSteps .. MaxAngleSteps}
  /\ scanIDOut = 0
  /\ keptOut = FALSE
  /\ IdleProc
  /\ IdleImu
  /\ IdleFeat
  /\ IdlePose
  /\ IdleSetup
  /\ IdleSort
  /\ IdleMsg

RingMap ==
  /\ pcRing = "in"
  /\ scanIDOut' = getRingForAngle(VLP16, angleIn)
  /\ pcRing' = "mapped"
  /\ UNCHANGED <<angleIn, keptOut, procVars, featVars, imuVars, otherVars>>

RingTest ==
  /\ pcRing = "mapped"
  /\ keptOut' = RingInRange(VLP16, scanIDOut)
  /\ pcRing' = "done"
  /\ UNCHANGED <<angleIn, scanIDOut, procVars, featVars, imuVars, otherVars>>

NextRing == RingMap \/ RingTest

SpecRing == InitRing /\ [][NextRing]_vars

====
